---- MODULE Spec2Model ----
(***************************************************************************)
(* A model of the heuristic engines of the e-commerce intelligence engine: *)
(*   src/src/forecasting_simple.py  SimpleForecastingEngine                *)
(*   src/src/forecasting.py         ForecastingEngine (AI.FORECAST based)  *)
(*   src/src/ai_engine_simple.py    SimpleAIEngine                         *)
(*   src/src/vector_search.py       VectorSearchEngine                     *)
(*                                                                         *)
(* Every engine is a set of synchronous calls against warehouse tables.    *)
(* The tables are the state; one action is one whole call, and `call`      *)
(* records the last call made together with the value it returned.         *)
(* Python floats are modelled by exact rationals [n, d] in lowest terms.   *)
(***************************************************************************)
EXTENDS Integers, Sequences, FiniteSets, TLC

VARIABLES
    history,      \* rows of the daily history query, oldest first (values only)
    today,        \* day number of datetime.now(); weekday() = today % 7, 0 = Monday
    ai_forecast,  \* what the AI.FORECAST query of ForecastingEngine answers
    text,         \* the text handed to SimpleAIEngine, a sequence of characters
    products,     \* the products table: product_id -> row
    embeddings,   \* the product_embeddings table: the product_ids that have a row
    tables,       \* DataIngestion's tables: name -> whether it exists, its rows
    call          \* the last call and its return value

vars == <<history, today, ai_forecast, text, products, embeddings, tables, call>>

(***************************************************************************)
(* Bounds of the model.                                                    *)
(***************************************************************************)
MaxOlderDays == 7
MaxRecentDays == 7
MaxToday == 1
MaxPeriods == 2
MaxAIPeriods == 2

(***************************************************************************)
(* Optional values: None is Python's None, Some(x) a present value.        *)
(***************************************************************************)
None == <<>>
Some(x) == <<x>>

(***************************************************************************)
(* Exact rationals for Python's float arithmetic.                          *)
(***************************************************************************)
Abs(x) == IF x < 0 THEN -x ELSE x

RECURSIVE GCD(_, _)
GCD(a, b) == IF b = 0 THEN a ELSE GCD(b, a % b)

Rat(n, d) ==
    LET s == IF d < 0 THEN -1 ELSE 1
        g == GCD(Abs(n), Abs(d))
    IN  [n |-> (s * n) \div g, d |-> (s * d) \div g]

RatAdd(a, b) == Rat(a.n * b.d + b.n * a.d, a.d * b.d)
RatSub(a, b) == Rat(a.n * b.d - b.n * a.d, a.d * b.d)
RatMul(a, b) == Rat(a.n * b.n, a.d * b.d)
RatDiv(a, b) == Rat(a.n * b.d, a.d * b.n)
RatLt(a, b) == a.n * b.d < b.n * a.d
RatGeq(a, b) == a.n * b.d >= b.n * a.d
RatMax(a, b) == IF RatGeq(a, b) THEN a ELSE b
RatMin(a, b) == IF RatGeq(a, b) THEN b ELSE a
RatAbs(a) == [n |-> Abs(a.n), d |-> a.d]
Int2Rat(k) == [n |-> k, d |-> 1]
Zero == Int2Rat(0)
One == Int2Rat(1)

(***************************************************************************)
(* Python list helpers.                                                    *)
(***************************************************************************)
RECURSIVE Sum(_)
Sum(xs) == IF xs = <<>> THEN 0 ELSE Head(xs) + Sum(Tail(xs))

\* statistics.mean of a non-empty list of numbers
mean(xs) == Rat(Sum(xs), Len(xs))

\* xs[-n:]
LastN(xs, n) == IF Len(xs) <= n THEN xs ELSE SubSeq(xs, Len(xs) - n + 1, Len(xs))

\* xs[-14:-7], used by the code only when len(xs) >= 14
PriorWeek(xs) == SubSeq(xs, Len(xs) - 13, Len(xs) - 7)

Rep(v, k) == [i \in 1..k |-> v]

(***************************************************************************)
(* SimpleForecastingEngine: the three strategies.                          *)
(***************************************************************************)
ForecastPoint(i, value, confidence, now) ==
    [period |-> i, value |-> value, confidence |-> confidence, date |-> now + i]

\* mutant: the period is the loop index i, not i + 1
_calculate_moving_average_forecast_0(sales_data, periods, now) ==
    LET avg_sales ==
            IF Len(sales_data) < 7
            THEN (IF sales_data # <<>> THEN mean(sales_data) ELSE One)
            ELSE mean(LastN(sales_data, 7))
    IN  [i \in 1..periods |-> ForecastPoint(i - 1, avg_sales, Rat(8, 10), now)]

\* mutant: the mean is taken over the whole series, not over its last 7
_calculate_moving_average_forecast_all(sales_data, periods, now) ==
    LET avg_sales == IF sales_data # <<>> THEN mean(sales_data) ELSE One
    IN  [i \in 1..periods |-> ForecastPoint(i, avg_sales, Rat(8, 10), now)]

_calculate_moving_average_forecast(sales_data, periods, now) ==
    LET avg_sales ==
            IF Len(sales_data) < 7
            THEN (IF sales_data # <<>> THEN mean(sales_data) ELSE One)
            ELSE mean(LastN(sales_data, 7))
    IN  [i \in 1..periods |-> ForecastPoint(i, avg_sales, Rat(8, 10), now)]

\* mutant: the values are not floored at 0
_calculate_trend_forecast_unfloored(sales_data, periods, now) ==
    LET short == Len(sales_data) < 2
        recent_sales == LastN(sales_data, 7)
        older_sales == IF Len(sales_data) >= 14 THEN PriorWeek(sales_data)
                       ELSE recent_sales
        recent_avg == mean(recent_sales)
        older_avg == mean(older_sales)
        trend == IF short THEN Zero
                 ELSE RatDiv(RatSub(recent_avg, older_avg), RatMax(older_avg, One))
        avg_sales == IF short
                     THEN (IF sales_data # <<>> THEN mean(sales_data) ELSE Int2Rat(100))
                     ELSE recent_avg
        predicted_value(i) == RatMul(avg_sales, RatAdd(One, RatMul(trend, Int2Rat(i))))
    IN  [i \in 1..periods |-> ForecastPoint(i, predicted_value(i), Rat(75, 100), now)]

\* mutant: the trend grows with the day of the month of the call, not with i
_calculate_trend_forecast_dated(sales_data, periods, now) ==
    LET short == Len(sales_data) < 2
        recent_sales == LastN(sales_data, 7)
        avg_sales == IF short
                     THEN (IF sales_data # <<>> THEN mean(sales_data) ELSE Int2Rat(100))
                     ELSE mean(recent_sales)
    IN  [i \in 1..periods |->
            ForecastPoint(i, RatMax(Zero, RatMul(avg_sales, Int2Rat(1 + now))),
                          Rat(75, 100), now)]

_calculate_trend_forecast(sales_data, periods, now) ==
    LET short == Len(sales_data) < 2
        recent_sales == LastN(sales_data, 7)
        older_sales == IF Len(sales_data) >= 14 THEN PriorWeek(sales_data)
                       ELSE recent_sales
        recent_avg == mean(recent_sales)
        older_avg == mean(older_sales)
        trend == IF short THEN Zero
                 ELSE RatDiv(RatSub(recent_avg, older_avg), RatMax(older_avg, One))
        avg_sales == IF short
                     THEN (IF sales_data # <<>> THEN mean(sales_data) ELSE Int2Rat(100))
                     ELSE recent_avg
        predicted_value(i) == RatMul(avg_sales, RatAdd(One, RatMul(trend, Int2Rat(i))))
    IN  [i \in 1..periods |->
            ForecastPoint(i, RatMax(Zero, predicted_value(i)), Rat(75, 100), now)]

weekday(day) == day % 7

\* mutant: the boost falls on Saturday and Sunday
seasonal_factor_weekend(day_of_week) ==
    IF day_of_week \in {5, 6} THEN Rat(12, 10)
    ELSE IF day_of_week = 0 THEN Rat(9, 10)
    ELSE One

seasonal_factor(day_of_week) ==
    IF day_of_week \in {4, 5} THEN Rat(12, 10)
    ELSE IF day_of_week = 0 THEN Rat(9, 10)
    ELSE One

_calculate_seasonal_forecast(revenue_data, periods, now) ==
    LET avg_revenue ==
            IF Len(revenue_data) < 7
            THEN (IF revenue_data # <<>> THEN mean(revenue_data) ELSE Int2Rat(1000))
            ELSE mean(LastN(revenue_data, 7))
        predicted_value(i) == RatMul(avg_revenue, seasonal_factor(weekday(now + i)))
    IN  [i \in 1..periods |->
            ForecastPoint(i, RatMax(Zero, predicted_value(i)), Rat(7, 10), now)]

(***************************************************************************)
(* SimpleForecastingEngine: the default generators.                        *)
(***************************************************************************)
DefaultPredictions(value, periods, now) ==
    [i \in 1..periods |-> ForecastPoint(i, value, Rat(5, 10), now)]

_generate_default_forecast(periods, now) ==
    [subject |-> "product_id", forecast_periods |-> periods,
     predictions |-> DefaultPredictions(Int2Rat(1), periods, now),
     method |-> "default", confidence_level |-> Rat(5, 10), last_updated |-> now]

_generate_default_category_forecast(periods, now) ==
    [subject |-> "category", forecast_periods |-> periods,
     predictions |-> DefaultPredictions(Int2Rat(100), periods, now),
     method |-> "default", confidence_level |-> Rat(5, 10), last_updated |-> now]

_generate_default_revenue_forecast(periods, now) ==
    [subject |-> "forecast_type", forecast_periods |-> periods,
     predictions |-> DefaultPredictions(Int2Rat(1000), periods, now),
     method |-> "default", confidence_level |-> Rat(5, 10), last_updated |-> now]

(***************************************************************************)
(* SimpleForecastingEngine: the public forecasts.  `rows` is what the      *)
(* history query returned, `raised` whether client.query()/result() raised.*)
(***************************************************************************)
forecast_product_demand(rows, raised, forecast_periods, now) ==
    IF raised THEN _generate_default_forecast(forecast_periods, now)
    ELSE IF rows = <<>> THEN _generate_default_forecast(forecast_periods, now)
    ELSE [subject |-> "product_id", forecast_periods |-> forecast_periods,
          predictions |-> _calculate_moving_average_forecast(rows, forecast_periods, now),
          method |-> "moving_average", confidence_level |-> Rat(8, 10),
          last_updated |-> now]

forecast_category_demand(rows, raised, forecast_periods, now) ==
    IF raised THEN _generate_default_category_forecast(forecast_periods, now)
    ELSE IF rows = <<>> THEN _generate_default_category_forecast(forecast_periods, now)
    ELSE [subject |-> "category", forecast_periods |-> forecast_periods,
          predictions |-> _calculate_trend_forecast(rows, forecast_periods, now),
          method |-> "trend_analysis", confidence_level |-> Rat(75, 100),
          last_updated |-> now]

\* mutant: the except branch returns the product default (a pasted handler)
forecast_revenue_pasted(rows, raised, forecast_periods, now) ==
    IF raised THEN _generate_default_forecast(forecast_periods, now)
    ELSE IF rows = <<>> THEN _generate_default_revenue_forecast(forecast_periods, now)
    ELSE [subject |-> "forecast_type", forecast_periods |-> forecast_periods,
          predictions |-> _calculate_seasonal_forecast(rows, forecast_periods, now),
          method |-> "seasonal_analysis", confidence_level |-> Rat(7, 10),
          last_updated |-> now]

forecast_revenue(rows, raised, forecast_periods, now) ==
    IF raised THEN _generate_default_revenue_forecast(forecast_periods, now)
    ELSE IF rows = <<>> THEN _generate_default_revenue_forecast(forecast_periods, now)
    ELSE [subject |-> "forecast_type", forecast_periods |-> forecast_periods,
          predictions |-> _calculate_seasonal_forecast(rows, forecast_periods, now),
          method |-> "seasonal_analysis", confidence_level |-> Rat(7, 10),
          last_updated |-> now]

(***************************************************************************)
(* Inventory stockout projection, shared by both forecasting engines: the  *)
(* loop over demand_forecast['predictions'] of get_inventory_forecast.     *)
(***************************************************************************)
forecast_horizon == 90

HasKey(dict, key) == key \in DOMAIN dict

EmptyDict == <<>>

ScanStart == [cumulative_demand |-> Zero, stockout_day |-> None,
              stockout_confidence |-> None]

\* mutant: the stock must be exceeded, not reached (> for >=)
ScanStep_strict(acc, prediction, i, current_stock) ==
    LET cumulative_demand == RatAdd(acc.cumulative_demand, prediction.value)
        hit == ~RatGeq(Int2Rat(current_stock), cumulative_demand)
               /\ acc.stockout_day = None
    IN  [cumulative_demand |-> cumulative_demand,
         stockout_day |-> IF hit THEN Some(i) ELSE acc.stockout_day,
         stockout_confidence |-> IF hit THEN Some(prediction.confidence)
                                 ELSE acc.stockout_confidence]

\* mutant: the `stockout_day is None` test is lost, so the last hit is kept
ScanStep_last(acc, prediction, i, current_stock) ==
    LET cumulative_demand == RatAdd(acc.cumulative_demand, prediction.value)
        hit == RatGeq(cumulative_demand, Int2Rat(current_stock))
    IN  [cumulative_demand |-> cumulative_demand,
         stockout_day |-> IF hit THEN Some(i) ELSE acc.stockout_day,
         stockout_confidence |-> IF hit THEN Some(prediction.confidence)
                                 ELSE acc.stockout_confidence]

\* one iteration of the loop, for the i-th prediction (1-indexed)
ScanStep(acc, prediction, i, current_stock) ==
    LET cumulative_demand == RatAdd(acc.cumulative_demand, prediction.value)
        hit == RatGeq(cumulative_demand, Int2Rat(current_stock))
               /\ acc.stockout_day = None
    IN  [cumulative_demand |-> cumulative_demand,
         stockout_day |-> IF hit THEN Some(i) ELSE acc.stockout_day,
         stockout_confidence |-> IF hit THEN Some(prediction.confidence)
                                 ELSE acc.stockout_confidence]

\* the loop over predictions[lo..hi], in order.  The range is split in halves
\* and the first half is evaluated before the second is entered, which keeps
\* the evaluation shallow; the iterations and their order are the loop's.
RECURSIVE StockoutScan(_, _, _, _, _)
StockoutScan(predictions, current_stock, lo, hi, acc) ==
    IF lo > hi THEN acc
    ELSE IF lo = hi THEN ScanStep(acc, predictions[lo], lo, current_stock)
    ELSE LET mid == (lo + hi) \div 2
             first == StockoutScan(predictions, current_stock, lo, mid, acc)
         IN  IF first.cumulative_demand.d > 0
             THEN StockoutScan(predictions, current_stock, mid + 1, hi, first)
             ELSE first

\* mutant: the reorder quantity subtracts the wrong way round
InventoryResult_swapped(demand_forecast, current_stock) ==
    LET scan == StockoutScan(demand_forecast.predictions, current_stock, 1,
                             Len(demand_forecast.predictions), ScanStart)
    IN  [current_stock |-> current_stock,
         stockout_day |-> scan.stockout_day,
         stockout_confidence |-> scan.stockout_confidence,
         cumulative_demand_90_days |-> scan.cumulative_demand,
         recommended_reorder_quantity |->
             RatMax(Zero, RatSub(Int2Rat(current_stock), scan.cumulative_demand)),
         demand_forecast |-> demand_forecast]

InventoryResult(demand_forecast, current_stock) ==
    LET scan == StockoutScan(demand_forecast.predictions, current_stock, 1,
                             Len(demand_forecast.predictions), ScanStart)
    IN  [current_stock |-> current_stock,
         stockout_day |-> scan.stockout_day,
         stockout_confidence |-> scan.stockout_confidence,
         cumulative_demand_90_days |-> scan.cumulative_demand,
         recommended_reorder_quantity |->
             RatMax(Zero, RatSub(scan.cumulative_demand, Int2Rat(current_stock))),
         demand_forecast |-> demand_forecast]

\* SimpleForecastingEngine.get_inventory_forecast
get_inventory_forecast(rows, raised, current_stock, now) ==
    LET demand_forecast == forecast_product_demand(rows, raised, forecast_horizon, now)
    IN  IF DOMAIN demand_forecast = {} \/ ~HasKey(demand_forecast, "predictions")
        THEN [current_stock |-> current_stock, stockout_day |-> None,
              stockout_confidence |-> None, cumulative_demand_90_days |-> Zero,
              recommended_reorder_quantity |-> Zero,
              demand_forecast |-> demand_forecast]
        ELSE InventoryResult(demand_forecast, current_stock)

(***************************************************************************)
(* ForecastingEngine (AI.FORECAST): the answer of the managed service is   *)
(* [status, predictions]; a prediction is [value, confidence], confidence  *)
(* None when the service gives none.                                       *)
(***************************************************************************)
_parse_forecast_result(answer, now) ==
    IF answer.status = "unparsable"
    THEN [identifier |-> "product_id", error |-> "parse", generated_at |-> now]
    ELSE [identifier |-> "product_id",
          forecast_type |-> "product",
          forecast_periods |-> Len(answer.predictions),
          predictions |->
              [i \in 1..Len(answer.predictions) |->
                  [period |-> i, date |-> now + i,
                   value |-> Int2Rat(answer.predictions[i].value),
                   confidence |->
                       IF answer.predictions[i].confidence = None THEN Rat(95, 100)
                       ELSE answer.predictions[i].confidence[1]]],
          generated_at |-> now]

ai_forecast_product_demand(answer, now) ==
    IF answer.status \in {"raised", "no_rows"} THEN EmptyDict
    ELSE _parse_forecast_result(answer, now)

ai_get_inventory_forecast(answer, current_stock, now) ==
    LET demand_forecast == ai_forecast_product_demand(answer, now)
    IN  IF DOMAIN demand_forecast = {} \/ ~HasKey(demand_forecast, "predictions")
        THEN EmptyDict
        ELSE InventoryResult(demand_forecast, current_stock)

(***************************************************************************)
(* Inputs of the forecasting engines.                                      *)
(***************************************************************************)
HistoryValues == {-1, 0, 3}

\* daily histories: an older stretch of one value followed by a recent one
Histories ==
    { Rep(a, i) \o Rep(b, j) :
        a \in HistoryValues, b \in HistoryValues,
        i \in 0..MaxOlderDays, j \in 0..MaxRecentDays }

Stocks == {-1, 0, 1, 4, 90, 91, 270}

AIPredictions ==
    [value : {-1, 2}, confidence : {None, Some(Rat(6, 10))}]

AIPredictionLists ==
    UNION { [1..k -> AIPredictions] : k \in 0..MaxAIPeriods }

AIDown == [status |-> "raised", predictions |-> <<>>]

AIAnswers ==
    [status : {"raised", "no_rows", "unparsable"}, predictions : {<<>>}]
    \cup [status : {"ok"}, predictions : AIPredictionLists]

\* the days on which calls are made: a Monday, a Thursday, a Sunday, ...
Days == { 3 * k : k \in 0..MaxToday }

NoCall == [op |-> "none"]

\* the tables, in the order create_tables creates them
TableNames == <<"products", "users", "orders", "order_items", "reviews",
                "user_behavior", "sales_data">>

\* a dataset in which no table has been created
NoTables ==
    [t \in { TableNames[i] : i \in DOMAIN TableNames } |->
        [exists |-> FALSE, rows |-> 0]]


ForecastOps == {"forecast_product_demand", "forecast_category_demand",
                "forecast_revenue"}

\* only the forecasting tables vary; the two engines do not share data
InitForecast ==
    /\ \/ history \in Histories /\ ai_forecast = AIDown
       \/ history = <<>> /\ ai_forecast \in AIAnswers
    /\ today \in Days
    /\ text = <<>>
    /\ products = <<>>
    /\ embeddings = {}
    /\ tables = NoTables
    /\ call = NoCall

(***************************************************************************)
(* The calls of the forecasting engines.                                   *)
(***************************************************************************)
ForecastProductDemand ==
    \E forecast_periods \in 0..MaxPeriods, raised \in BOOLEAN :
        /\ call = NoCall
        /\ call' = [op |-> "forecast_product_demand",
                    forecast_periods |-> forecast_periods, raised |-> raised,
                    ret |-> forecast_product_demand(history, raised,
                                                    forecast_periods, today)]
        /\ UNCHANGED <<history, today, ai_forecast, text, products, embeddings, tables>>

ForecastCategoryDemand ==
    \E forecast_periods \in 0..MaxPeriods, raised \in BOOLEAN :
        /\ call = NoCall
        /\ call' = [op |-> "forecast_category_demand",
                    forecast_periods |-> forecast_periods, raised |-> raised,
                    ret |-> forecast_category_demand(history, raised,
                                                     forecast_periods, today)]
        /\ UNCHANGED <<history, today, ai_forecast, text, products, embeddings, tables>>

ForecastRevenue ==
    \E forecast_periods \in 0..MaxPeriods, raised \in BOOLEAN :
        /\ call = NoCall
        /\ call' = [op |-> "forecast_revenue",
                    forecast_periods |-> forecast_periods, raised |-> raised,
                    ret |-> forecast_revenue(history, raised, forecast_periods, today)]
        /\ UNCHANGED <<history, today, ai_forecast, text, products, embeddings, tables>>

GetInventoryForecast ==
    \E current_stock \in Stocks, raised \in BOOLEAN :
        /\ call = NoCall
        /\ call' = [op |-> "get_inventory_forecast",
                    current_stock |-> current_stock, raised |-> raised,
                    ret |-> get_inventory_forecast(history, raised, current_stock, today)]
        /\ UNCHANGED <<history, today, ai_forecast, text, products, embeddings, tables>>

AIGetInventoryForecast ==
    \E current_stock \in Stocks :
        /\ call = NoCall
        /\ call' = [op |-> "ai_get_inventory_forecast",
                    current_stock |-> current_stock,
                    ret |-> ai_get_inventory_forecast(ai_forecast, current_stock, today)]
        /\ UNCHANGED <<history, today, ai_forecast, text, products, embeddings, tables>>

\* the caller takes the returned value; the engine is ready for the next call
Return ==
    /\ call # NoCall
    /\ call' = NoCall
    /\ UNCHANGED <<history, today, ai_forecast, text, products, embeddings, tables>>

NextForecast ==
    \/ Return
    \/ ForecastProductDemand
    \/ ForecastCategoryDemand
    \/ ForecastRevenue
    \/ GetInventoryForecast
    \/ AIGetInventoryForecast

SpecForecast == InitForecast /\ [][NextForecast]_vars

(***************************************************************************)
(* Claims about the forecasting engines.                                   *)
(***************************************************************************)
\* the running sums of the values of points[lo..hi], on top of base
RECURSIVE RunningSums(_, _, _, _)
RunningSums(points, lo, hi, base) ==
    IF lo > hi THEN <<>>
    ELSE IF lo = hi THEN <<RatAdd(base, points[lo].value)>>
    ELSE LET mid == (lo + hi) \div 2
             first == RunningSums(points, lo, mid, base)
         IN  first \o RunningSums(points, mid + 1, hi, first[Len(first)])

Reported == call.ret.demand_forecast.predictions

ReportedSums == RunningSums(Reported, 1, Len(Reported), Zero)

SumThrough(sums, k) == IF k = 0 THEN Zero ELSE sums[k]

Least(S) == CHOOSE m \in S : \A k \in S : m <= k

StockoutReported ==
    /\ call.op \in {"get_inventory_forecast", "ai_get_inventory_forecast"}
    /\ HasKey(call.ret, "stockout_day")
    /\ call.ret.stockout_day # None

\* C3 as stated: whenever get_inventory_forecast reports a stockout_day d, the
\* forecast values of periods 1..d sum to at least current_stock and those of
\* periods 1..d-1 sum to less than current_stock, for every integer stock.
C3_StockoutBracketsAnyStock ==
    StockoutReported =>
        LET d == call.ret.stockout_day[1]
            sums == ReportedSums
        IN  /\ RatGeq(SumThrough(sums, d), Int2Rat(call.current_stock))
            /\ RatLt(SumThrough(sums, d - 1), Int2Rat(call.current_stock))

\* C3 amended: the sum through d is at least current_stock, and the sum
\* through d-1 is below current_stock unless d = 1 and current_stock <= 0.
C3_StockoutBracketsStock ==
    StockoutReported =>
        LET d == call.ret.stockout_day[1]
            sums == ReportedSums
        IN  /\ RatGeq(SumThrough(sums, d), Int2Rat(call.current_stock))
            /\ (d > 1 \/ call.current_stock > 0)
                   => RatLt(SumThrough(sums, d - 1), Int2Rat(call.current_stock))

C3_Witness ==
    /\ StockoutReported
    /\ call.ret.stockout_day[1] > 1
    /\ call.current_stock > 0

\* C4: SimpleForecastingEngine.get_inventory_forecast forecasts 90 periods;
\* stockout_day is the first period whose running sum reaches current_stock
\* and stockout_confidence the confidence of that period's prediction; both
\* are None exactly when no period's running sum reaches current_stock.
C4_FirstPeriodReachingStock ==
    call.op = "get_inventory_forecast" =>
        LET sums == ReportedSums
            hits == { i \in 1..Len(Reported) :
                        RatGeq(sums[i], Int2Rat(call.current_stock)) }
        IN  /\ Len(Reported) = 90
            /\ IF hits = {}
               THEN /\ call.ret.stockout_day = None
                    /\ call.ret.stockout_confidence = None
               ELSE /\ call.ret.stockout_day = Some(Least(hits))
                    /\ call.ret.stockout_confidence
                           = Some(Reported[Least(hits)].confidence)

C4_Witness ==
    /\ call.op = "get_inventory_forecast"
    /\ call.ret.stockout_day # None
    /\ call.ret.stockout_day[1] > 1
    /\ call.ret.stockout_day[1] < 90
    /\ call.ret.stockout_confidence = Some(Rat(8, 10))

\* C5: recommended_reorder_quantity is max(0, S - current_stock) with S the
\* sum of all forecast values, reported as cumulative_demand_90_days; it is
\* never negative and is 0 whenever stockout_day is None.
C5_ReorderQuantity ==
    call.op = "get_inventory_forecast" =>
        LET sums == ReportedSums
            S == SumThrough(sums, Len(Reported))
            stock == Int2Rat(call.current_stock)
            reorder == call.ret.recommended_reorder_quantity
        IN  /\ call.ret.cumulative_demand_90_days = S
            /\ IF RatGeq(S, stock) THEN RatAdd(reorder, stock) = S
               ELSE reorder = Zero
            /\ RatGeq(reorder, Zero)
            /\ call.ret.stockout_day = None => reorder = Zero

C5_Witness ==
    /\ call.op = "get_inventory_forecast"
    /\ RatLt(Zero, call.ret.recommended_reorder_quantity)
    /\ call.current_stock > 0

\* C6: forecast_product_demand, forecast_category_demand and forecast_revenue
\* return exactly forecast_periods predictions, the i-th with period = i,
\* whether the history query gave rows, gave none, or raised.
C6_ExactlyPeriodsPoints ==
    call.op \in ForecastOps =>
        /\ Len(call.ret.predictions) = call.forecast_periods
        /\ \A i \in 1..Len(call.ret.predictions) :
               call.ret.predictions[i].period = i

C6_Witness ==
    /\ call.op = "forecast_product_demand"
    /\ ~call.raised
    /\ history # <<>>
    /\ call.forecast_periods >= 2
    /\ Len(call.ret.predictions) = call.forecast_periods

\* C7 as stated: every forecast point of the three strategies and of the
\* default generators has value >= 0 and confidence within [0, 1].
C7_PointsNonNegative ==
    call.op \in ForecastOps =>
        \A i \in 1..Len(call.ret.predictions) :
            /\ RatGeq(call.ret.predictions[i].value, Zero)
            /\ RatGeq(call.ret.predictions[i].confidence, Zero)
            /\ RatGeq(One, call.ret.predictions[i].confidence)

DefaultValue(op) ==
    CASE op = "forecast_product_demand" -> Int2Rat(1)
      [] op = "forecast_category_demand" -> Int2Rat(100)
      [] op = "forecast_revenue" -> Int2Rat(1000)

\* C8: with an empty history, and likewise when the history query raises,
\* the product, category and revenue forecasts return forecast_periods
\* points of value 1, 100 and 1000, each with confidence 0.5, marked
\* method 'default'.
C8_DefaultForecasts ==
    (call.op \in ForecastOps /\ (call.raised \/ history = <<>>)) =>
        /\ call.ret.method = "default"
        /\ Len(call.ret.predictions) = call.forecast_periods
        /\ \A i \in 1..Len(call.ret.predictions) :
               /\ call.ret.predictions[i].value = DefaultValue(call.op)
               /\ call.ret.predictions[i].confidence = Rat(1, 2)

C8_Witness ==
    /\ call.op = "forecast_revenue"
    /\ call.raised
    /\ history # <<>>
    /\ call.forecast_periods > 0
    /\ call.ret.method = "default"

(***************************************************************************)
(* SimpleAIEngine.  A text is a sequence of characters.                    *)
(***************************************************************************)
MaxFragments == 3

UpperCase == <<"A", "B", "C", "D", "E", "F", "G", "H", "I", "J", "K", "L", "M", "N", "O", "P", "Q", "R", "S", "T", "U", "V", "W", "X", "Y", "Z">>
LowerCase == <<"a", "b", "c", "d", "e", "f", "g", "h", "i", "j", "k", "l", "m", "n", "o", "p", "q", "r", "s", "t", "u", "v", "w", "x", "y", "z">>

\* str.lower(), one character
lower_char(c) ==
    IF \E i \in 1..26 : UpperCase[i] = c
    THEN LowerCase[CHOOSE i \in 1..26 : UpperCase[i] = c]
    ELSE c

\* str.lower()
lower(t) == [i \in 1..Len(t) |-> lower_char(t[i])]

\* Python's `word in t` on strings: word occurs in t as a substring
Contains(t, word) ==
    \E k \in 0..(Len(t) - Len(word)) : SubSeq(t, k + 1, k + Len(word)) = word

positive_words ==
    <<<<"g", "o", "o", "d">>,
      <<"g", "r", "e", "a", "t">>,
      <<"e", "x", "c", "e", "l", "l", "e", "n", "t">>,
      <<"a", "m", "a", "z", "i", "n", "g">>,
      <<"l", "o", "v", "e">>,
      <<"p", "e", "r", "f", "e", "c", "t">>,
      <<"w", "o", "n", "d", "e", "r", "f", "u", "l">>,
      <<"f", "a", "n", "t", "a", "s", "t", "i", "c">>>>
negative_words ==
    <<<<"b", "a", "d">>,
      <<"t", "e", "r", "r", "i", "b", "l", "e">>,
      <<"a", "w", "f", "u", "l">>,
      <<"h", "a", "t", "e">>,
      <<"w", "o", "r", "s", "t">>,
      <<"d", "i", "s", "a", "p", "p", "o", "i", "n", "t", "i", "n", "g">>,
      <<"p", "o", "o", "r">>,
      <<"h", "o", "r", "r", "i", "b", "l", "e">>>>

\* mutant: every place at which a word occurs is counted (text.count(word))
CountWordsIn_places(words, text_lower) ==
    Cardinality({ p \in (1..Len(words)) \X (0..Len(text_lower)) :
                    /\ p[2] + Len(words[p[1]]) <= Len(text_lower)
                    /\ SubSeq(text_lower, p[2] + 1, p[2] + Len(words[p[1]]))
                           = words[p[1]] })

\* sum(1 for word in words if word in text_lower)
CountWordsIn(words, text_lower) ==
    Cardinality({ i \in 1..Len(words) : Contains(text_lower, words[i]) })

\* mutant: the confidence is not capped at 0.9
analyze_sentiment_uncapped(t) ==
    LET text_lower == lower(t)
        positive_count == CountWordsIn(positive_words, text_lower)
        negative_count == CountWordsIn(negative_words, text_lower)
        sentiment == IF positive_count > negative_count THEN "positive"
                     ELSE IF negative_count > positive_count THEN "negative"
                     ELSE "neutral"
        confidence ==
            RatAdd(Rat(5, 10),
                   RatMul(Int2Rat(Abs(positive_count - negative_count)), Rat(1, 10)))
    IN  [sentiment |-> sentiment, confidence |-> confidence,
         positive_score |-> positive_count, negative_score |-> negative_count,
         text_length |-> Len(t)]

analyze_sentiment(t) ==
    LET text_lower == lower(t)
        positive_count == CountWordsIn(positive_words, text_lower)
        negative_count == CountWordsIn(negative_words, text_lower)
        sentiment == IF positive_count > negative_count THEN "positive"
                     ELSE IF negative_count > positive_count THEN "negative"
                     ELSE "neutral"
        confidence ==
            IF positive_count > negative_count
            THEN RatMin(Rat(9, 10),
                        RatAdd(Rat(5, 10),
                               RatMul(Int2Rat(positive_count - negative_count),
                                      Rat(1, 10))))
            ELSE IF negative_count > positive_count
            THEN RatMin(Rat(9, 10),
                        RatAdd(Rat(5, 10),
                               RatMul(Int2Rat(negative_count - positive_count),
                                      Rat(1, 10))))
            ELSE Rat(5, 10)
    IN  [sentiment |-> sentiment, confidence |-> confidence,
         positive_score |-> positive_count, negative_score |-> negative_count,
         text_length |-> Len(t)]

(***************************************************************************)
(* Inputs of SimpleAIEngine: texts put together from a few fragments.      *)
(***************************************************************************)
Fragments ==
    <<<<"g", "o", "o", "d">>,
      <<"G", "R", "E", "A", "T", " ">>,
      <<"b", "a", "d">>,
      <<"H", "a", "t", "e", " ">>,
      <<" ">>,
      <<"e", "x", "c", "e", "l", "l", "e", "n", "t", " ", "a", "m", "a", "z", "i", "n", "g", " ", "l", "o", "v", "e", " ", "p", "e", "r", "f", "e", "c", "t", " ">>,
      <<"t", "e", "r", "r", "i", "b", "l", "e", " ", "a", "w", "f", "u", "l", " ", "w", "o", "r", "s", "t">>,
      <<"o", "k">>>>

RECURSIVE Concat(_)
Concat(parts) == IF parts = <<>> THEN <<>> ELSE Head(parts) \o Concat(Tail(parts))

FragmentPicks == UNION { [1..k -> 1..Len(Fragments)] : k \in 0..MaxFragments }

Texts == { Concat([i \in DOMAIN pick |-> Fragments[pick[i]]]) : pick \in FragmentPicks }

InitText ==
    /\ text \in Texts
    /\ history = <<>>
    /\ ai_forecast = AIDown
    /\ today = 0
    /\ products = <<>>
    /\ embeddings = {}
    /\ tables = NoTables
    /\ call = NoCall

AnalyzeSentiment ==
    /\ call = NoCall
    /\ call' = [op |-> "analyze_sentiment", ret |-> analyze_sentiment(text)]
    /\ UNCHANGED <<history, today, ai_forecast, text, products, embeddings, tables>>

NextText ==
    \/ Return
    \/ AnalyzeSentiment

SpecText == InitText /\ [][NextText]_vars

(***************************************************************************)
(* Claims about SimpleAIEngine.analyze_sentiment.                          *)
(***************************************************************************)
SentimentReturned == call.op = "analyze_sentiment"

\* C9: the sentiment is 'positive' when positive_score > negative_score,
\* 'negative' when negative_score > positive_score and 'neutral' otherwise;
\* the confidence is min(0.9, 0.5 + 0.1*|difference|) when one side wins and
\* 0.5 otherwise, so it lies in [0.5, 0.9]; the empty string gives zero
\* scores, 'neutral', confidence 0.5 and text_length 0.
C9_SentimentAndConfidence ==
    SentimentReturned =>
        LET r == call.ret
            gap == Abs(r.positive_score - r.negative_score)
        IN  /\ r.sentiment = "positive" <=> r.positive_score > r.negative_score
            /\ r.sentiment = "negative" <=> r.negative_score > r.positive_score
            /\ r.sentiment = "neutral" <=> r.positive_score = r.negative_score
            /\ 10 * r.confidence.n
                   = r.confidence.d * (IF gap = 0 THEN 5
                                       ELSE IF 5 + gap < 9 THEN 5 + gap ELSE 9)
            /\ RatGeq(r.confidence, Rat(1, 2))
            /\ RatGeq(Rat(9, 10), r.confidence)
            /\ text = <<>> =>
                   r = [sentiment |-> "neutral", confidence |-> Rat(1, 2),
                        positive_score |-> 0, negative_score |-> 0,
                        text_length |-> 0]

C9_Witness ==
    /\ SentimentReturned
    /\ call.ret.positive_score - call.ret.negative_score >= 5
    /\ call.ret.sentiment = "positive"
    /\ call.ret.confidence = Rat(9, 10)

\* the number of places at which word occurs in t
Occurrences(t, word) ==
    Cardinality({ k \in 0..(Len(t) - Len(word)) :
                    SubSeq(t, k + 1, k + Len(word)) = word })

RECURSIVE SumOver(_, _)
SumOver(f, n) == IF n = 0 THEN 0 ELSE f[n] + SumOver(f, n - 1)

TotalOccurrences(words, t) ==
    SumOver([i \in 1..Len(words) |-> Occurrences(lower(t), words[i])], Len(words))

WordsOccurring(words, t) ==
    { i \in 1..Len(words) : Occurrences(lower(t), words[i]) >= 1 }

\* C10 as stated: positive_score (negative_score) counts every occurrence of
\* the positive (negative) words in the text, a word occurring n times
\* contributing n.
C10_EveryOccurrenceCounted ==
    SentimentReturned =>
        /\ call.ret.positive_score = TotalOccurrences(positive_words, text)
        /\ call.ret.negative_score = TotalOccurrences(negative_words, text)

\* C10 amended: positive_score (negative_score) is the number of words of the
\* positive (negative) list that occur at least once in the text as
\* case-insensitive substrings; a word occurring n >= 1 times contributes 1.
C10_WordsCountedOnce ==
    SentimentReturned =>
        /\ call.ret.positive_score
               = Cardinality(WordsOccurring(positive_words, text))
        /\ call.ret.negative_score
               = Cardinality(WordsOccurring(negative_words, text))

C10_Witness ==
    /\ SentimentReturned
    /\ call.ret.positive_score = 1
    /\ TotalOccurrences(positive_words, text) >= 2
    /\ \E i \in 1..Len(text) : text[i] # lower_char(text[i])

(***************************************************************************)
(* VectorSearchEngine.  A query is modelled by the rows its SQL selects    *)
(* from the tables; any query may also raise.  A call can end in several   *)
(* ways (which queries raise, how the warehouse orders rows that tie), so  *)
(* each method is the set of its possible outcomes [queries, ret]:         *)
(* `queries` logs the queries the call issued, in order, each with how it  *)
(* ended, and `ret` is the list the method returns.                        *)
(***************************************************************************)
MaxTopK == 2

ProductIds == {"P1", "P2", "P3"}

Log(query, outcome) == [query |-> query, outcome |-> outcome]

\* the outcomes of `rest`, after the queries `done` were issued first
After(done, rest) ==
    { [queries |-> done \o o.queries, ret |-> o.ret] : o \in rest }

Min(a, b) == IF a <= b THEN a ELSE b

\* ORDER BY ... LIMIT k over the row keys S, `before` the pairs <<a, b>> of
\* keys with a sorting strictly before b: every list of min(k, |S|) distinct
\* keys that is in order and leaves out no key that sorts strictly before one
\* it holds (rows that tie come in any order)
OrderByLimit(S, before, k) ==
    LET m == Min(k, Cardinality(S))
    IN  { rows \in [1..m -> S] :
            /\ \A i, j \in 1..m : i < j =>
                   rows[i] # rows[j] /\ <<rows[j], rows[i]>> \notin before
            /\ \A x \in S : (\A i \in 1..m : rows[i] # x) =>
                   \A i \in 1..m : <<x, rows[i]>> \notin before }

\* mutant: ORDER BY p.rating DESC, p.price DESC
ByRatingThenPrice_dearest(S) ==
    { p \in S \X S :
        \/ products[p[1]].rating > products[p[2]].rating
        \/ products[p[1]].rating = products[p[2]].rating
           /\ products[p[1]].price > products[p[2]].price }

\* ORDER BY p.rating DESC, p.price ASC
ByRatingThenPrice(S) ==
    { p \in S \X S :
        \/ products[p[1]].rating > products[p[2]].rating
        \/ products[p[1]].rating = products[p[2]].rating
           /\ products[p[1]].price < products[p[2]].price }

ProductColumns(id) ==
    [product_id |-> id, category |-> products[id].category,
     rating |-> products[id].rating, price |-> products[id].price,
     stock_quantity |-> products[id].stock_quantity]

WithScore(row, score) ==
    [product_id |-> row.product_id, category |-> row.category,
     rating |-> row.rating, price |-> row.price,
     stock_quantity |-> row.stock_quantity, similarity_score |-> score]

PopularRow(row) ==
    [product_id |-> row.product_id, category |-> row.category,
     rating |-> row.rating, price |-> row.price,
     stock_quantity |-> row.stock_quantity, similarity_score |-> Rat(5, 10),
     recommendation_type |-> "popular"]

_get_popular_products_recommendations(top_k) ==
    LET in_stock == { id \in DOMAIN products : products[id].stock_quantity > 0 }
    IN  { [queries |-> <<Log("popular", "raised")>>, ret |-> <<>>] }
        \cup
        { [queries |-> <<Log("popular", "ok")>>,
           ret |-> [i \in DOMAIN rows |-> PopularRow(ProductColumns(rows[i]))]] :
          rows \in OrderByLimit(in_stock, ByRatingThenPrice(in_stock), top_k) }

\* None when the query raises or selects no row
_get_product_details(product_id) ==
    { [queries |-> <<Log("details", "raised")>>, ret |-> None] }
    \cup
    ( IF product_id \in DOMAIN products
      THEN { [queries |-> <<Log("details", "ok")>>,
              ret |-> Some(ProductColumns(product_id))] }
      ELSE { [queries |-> <<Log("details", "no_row")>>, ret |-> None] } )

_get_fallback_recommendations(product_id, top_k) ==
    UNION {
        IF d.ret = None
        THEN After(d.queries, _get_popular_products_recommendations(top_k))
        ELSE LET same_category ==
                     { id \in DOMAIN products :
                         /\ products[id].category = d.ret[1].category
                         /\ id # product_id
                         /\ products[id].stock_quantity > 0 }
             IN  After(d.queries \o <<Log("category", "raised")>>,
                       _get_popular_products_recommendations(top_k))
                 \cup
                 { [queries |-> d.queries \o <<Log("category", "ok")>>,
                    ret |-> [i \in DOMAIN rows |->
                                WithScore(ProductColumns(rows[i]), Rat(6, 10))]] :
                   rows \in OrderByLimit(same_category, ByRatingThenPrice(same_category), top_k) }
        : d \in _get_product_details(product_id) }

(***************************************************************************)
(* Tier 1: the similarity query of find_similar_products.                  *)
(***************************************************************************)
RECURSIVE Dot(_, _)
Dot(a, b) == IF a = <<>> THEN 0 ELSE Head(a) * Head(b) + Dot(Tail(a), Tail(b))

\* SQRT of a perfect square (the embeddings of the model have integer norms)
Sqrt(n) == CHOOSE r \in 0..n : r * r = n

Norm(a) == Sqrt(Dot(a, a))

\* SUM(e1[i] * e2[i]) / (SQRT(SUM(e1[i] * e1[i])) * SQRT(SUM(e2[i] * e2[i])))
CosineSimilarity(a, b) == Rat(Dot(a, b), Norm(a) * Norm(b))

DivisionByZero(a, b) == Norm(a) * Norm(b) = 0

\* FROM product_embeddings e1
\* JOIN product_embeddings e2 ON e1.product_id = '{product_id}'
\* JOIN products p ON e1.product_id = p.product_id
\* WHERE e1.product_id != '{product_id}' AND p.stock_quantity > 0
SimilarityRows(product_id) ==
    { r \in (DOMAIN embeddings) \X (DOMAIN embeddings) \X (DOMAIN products) :
        /\ r[1] = product_id
        /\ r[1] = r[3]
        /\ r[1] # product_id
        /\ products[r[3]].stock_quantity > 0 }

RowSimilarity(r) == CosineSimilarity(embeddings[r[1]], embeddings[r[2]])

\* ORDER BY similarity_score DESC
BySimilarity(S) ==
    { p \in S \X S : RatLt(RowSimilarity(p[2]), RowSimilarity(p[1])) }

\* row.similarity_score or 0.5
ScoreOrDefault(score) == IF score = Zero THEN Rat(5, 10) ELSE score

\* None when the query raises or selects no row
_get_product_embedding(product_id) ==
    { [queries |-> <<Log("embedding", "raised")>>, ret |-> None] }
    \cup
    ( IF product_id \in DOMAIN embeddings
      THEN { [queries |-> <<Log("embedding", "ok")>>,
              ret |-> Some(embeddings[product_id])] }
      ELSE { [queries |-> <<Log("embedding", "no_row")>>, ret |-> None] } )

find_similar_products(product_id, top_k) ==
    UNION {
        IF e.ret = None \/ e.ret[1] = <<>>
        THEN { [queries |-> e.queries, ret |-> <<>>] }
        ELSE LET selected == SimilarityRows(product_id)
                 fails == \E r \in selected :
                             DivisionByZero(embeddings[r[1]], embeddings[r[2]])
             IN  After(e.queries \o <<Log("similarity", "raised")>>,
                       _get_fallback_recommendations(product_id, top_k))
                 \cup
                 ( IF fails THEN {}
                   ELSE { [queries |-> e.queries \o <<Log("similarity", "ok")>>,
                           ret |-> [i \in DOMAIN rows |->
                                       WithScore(ProductColumns(rows[i][3]),
                                                 ScoreOrDefault(RowSimilarity(rows[i])))]] :
                          rows \in OrderByLimit(selected, BySimilarity(selected), top_k) } )
        : e \in _get_product_embedding(product_id) }

(***************************************************************************)
(* Inputs of VectorSearchEngine.                                           *)
(***************************************************************************)
Target == "P1"

TargetRows == [category : {"A"}, rating : {4, 5}, price : {10},
               stock_quantity : {0, 5}]

OtherRows == [category : {"A", "B"}, rating : {4, 5}, price : {10, 20},
              stock_quantity : {0, 5}]

\* catalogs of two products and, possibly, the target
Catalogs ==
    { [id \in {"P2", "P3"} |-> IF id = "P2" THEN r2 ELSE r3] :
        r2 \in OtherRows, r3 \in OtherRows }
    \cup
    { [id \in ProductIds |-> IF id = "P1" THEN r1 ELSE IF id = "P2" THEN r2 ELSE r3] :
        r1 \in TargetRows, r2 \in OtherRows, r3 \in OtherRows }

DefaultEmbedding(id) ==
    IF id = "P1" THEN <<1, 0>> ELSE IF id = "P2" THEN <<3, 4>> ELSE <<0, 1>>

EmbeddedSets == { {}, {"P1"}, {"P1", "P2"}, ProductIds }

InitSearch ==
    /\ products \in Catalogs
    /\ \E S \in EmbeddedSets : embeddings = [id \in S |-> DefaultEmbedding(id)]
    /\ tables = NoTables
    /\ history = <<>>
    /\ ai_forecast = AIDown
    /\ today = 0
    /\ text = <<>>
    /\ call = NoCall

FindSimilarProducts ==
    \E top_k \in 0..MaxTopK :
        \E o \in find_similar_products(Target, top_k) :
            /\ call = NoCall
            /\ call' = [op |-> "find_similar_products", product_id |-> Target,
                        top_k |-> top_k, queries |-> o.queries, ret |-> o.ret]
            /\ UNCHANGED <<history, today, ai_forecast, text, products, embeddings, tables>>

NextSearch ==
    \/ Return
    \/ FindSimilarProducts

SpecSearch == InitSearch /\ [][NextSearch]_vars

(***************************************************************************)
(* Claims about VectorSearchEngine.find_similar_products.                  *)
(***************************************************************************)
SearchReturned == call.op = "find_similar_products"

Issued(query) == \E i \in DOMAIN call.queries : call.queries[i].query = query

Ended(query, outcomes) ==
    \E i \in DOMAIN call.queries :
        /\ call.queries[i].query = query
        /\ call.queries[i].outcome \in outcomes

LastQuery == call.queries[Len(call.queries)]

Tier1Unavailable ==
    \/ Ended("embedding", {"raised", "no_row"})
    \/ Ended("similarity", {"raised"})

CategoryTierUnavailable ==
    \/ Ended("details", {"raised", "no_row"})
    \/ Ended("category", {"raised"})

\* C1 as stated: when tier 1 cannot answer (no stored embedding, a failed
\* embedding lookup or a failed similarity query) the call goes on to the
\* category tier; when that tier cannot answer (no target details or a
\* failed query) it goes on to the popularity tier; and a call whose last
\* query did not answer returns the empty list only when that query is the
\* failed popularity query.
C1_DegradesTierByTier ==
    SearchReturned =>
        /\ Tier1Unavailable => Issued("details")
        /\ CategoryTierUnavailable => Issued("popular")
        /\ (call.ret = <<>> /\ LastQuery.outcome # "ok")
               => LastQuery = Log("popular", "raised")

ReturnedIds == { call.ret[i].product_id : i \in DOMAIN call.ret }

InStock == { id \in DOMAIN products : products[id].stock_quantity > 0 }

\* the candidates of the tier that answered
Eligible(tier) ==
    CASE tier = "similarity" ->
             { id \in InStock \cap DOMAIN embeddings : id # call.product_id }
      [] tier = "category" ->
             { id \in InStock :
                 /\ id # call.product_id
                 /\ call.product_id \in DOMAIN products
                 /\ products[id].category = products[call.product_id].category }
      [] tier = "popular" -> InStock

\* C2 as stated: every returned product has stock_quantity > 0, at most top_k
\* products are returned, and when the tier that answered has fewer than
\* top_k eligible candidates all of them are returned.
C2_InStockAtMostTopKAllIfFewer ==
    SearchReturned =>
        /\ \A i \in DOMAIN call.ret : call.ret[i].stock_quantity > 0
        /\ Len(call.ret) <= call.top_k
        /\ (/\ LastQuery.outcome = "ok"
            /\ LastQuery.query \in {"similarity", "category", "popular"}
            /\ Cardinality(Eligible(LastQuery.query)) < call.top_k)
               => ReturnedIds = Eligible(LastQuery.query)

(***************************************************************************)
(* SimpleAIEngine.generate_embedding: the hash-based placeholder vector.   *)
(***************************************************************************)
embedding_size == 768

Digits == <<"0", "1", "2", "3", "4", "5", "6", "7", "8", "9">>

\* ord() of a decimal digit or of a lower-case letter
ord(c) ==
    IF \E i \in 1..10 : Digits[i] = c
    THEN 47 + (CHOOSE i \in 1..10 : Digits[i] = c)
    ELSE 96 + (CHOOSE i \in 1..26 : LowerCase[i] = c)

\* a lone surrogate code point, which str.encode() cannot encode
Surrogate == "U+D800"

\* whether text.encode() returns (it raises UnicodeEncodeError otherwise)
Encodable(t) == \A i \in 1..Len(t) : t[i] # Surrogate

\* hashlib.md5(text.encode()).hexdigest(), tabulated for the texts of the model
MD5Table ==
  <<[text |-> <<>>,
   digest |-> <<"d", "4", "1", "d", "8", "c", "d", "9", "8", "f", "0", "0", "b", "2", "0", "4", "e", "9", "8", "0", "0", "9", "9", "8", "e", "c", "f", "8", "4", "2", "7", "e">>],
    [text |-> <<"a">>,
   digest |-> <<"0", "c", "c", "1", "7", "5", "b", "9", "c", "0", "f", "1", "b", "6", "a", "8", "3", "1", "c", "3", "9", "9", "e", "2", "6", "9", "7", "7", "2", "6", "6", "1">>],
    [text |-> <<"b">>,
   digest |-> <<"9", "2", "e", "b", "5", "f", "f", "e", "e", "6", "a", "e", "2", "f", "e", "c", "3", "a", "d", "7", "1", "c", "7", "7", "7", "5", "3", "1", "5", "7", "8", "f">>],
    [text |-> <<"c">>,
   digest |-> <<"4", "a", "8", "a", "0", "8", "f", "0", "9", "d", "3", "7", "b", "7", "3", "7", "9", "5", "6", "4", "9", "0", "3", "8", "4", "0", "8", "b", "5", "f", "3", "3">>],
    [text |-> <<"A">>,
   digest |-> <<"7", "f", "c", "5", "6", "2", "7", "0", "e", "7", "a", "7", "0", "f", "a", "8", "1", "a", "5", "9", "3", "5", "b", "7", "2", "e", "a", "c", "b", "e", "2", "9">>],
    [text |-> <<"a", "b">>,
   digest |-> <<"1", "8", "7", "e", "f", "4", "4", "3", "6", "1", "2", "2", "d", "1", "c", "c", "2", "f", "4", "0", "d", "c", "2", "b", "9", "2", "f", "0", "e", "b", "a", "0">>],
    [text |-> <<"b", "a">>,
   digest |-> <<"0", "7", "1", "5", "9", "c", "4", "7", "e", "e", "1", "b", "1", "9", "a", "e", "4", "f", "b", "9", "c", "4", "0", "d", "4", "8", "0", "8", "5", "6", "c", "4">>],
    [text |-> <<"t", "v">>,
   digest |-> <<"c", "9", "a", "1", "f", "d", "a", "c", "6", "e", "0", "8", "2", "d", "d", "8", "9", "e", "7", "1", "7", "3", "2", "4", "4", "f", "3", "4", "d", "7", "b", "3">>],
    [text |-> <<"p", "c">>,
   digest |-> <<"b", "c", "5", "4", "f", "4", "d", "6", "0", "f", "1", "c", "e", "c", "0", "f", "9", "a", "6", "c", "b", "7", "0", "e", "1", "3", "f", "2", "1", "2", "7", "a">>],
    [text |-> <<"h", "i">>,
   digest |-> <<"4", "9", "f", "6", "8", "a", "5", "c", "8", "4", "9", "3", "e", "c", "2", "c", "0", "b", "f", "4", "8", "9", "8", "2", "1", "c", "2", "1", "f", "c", "3", "b">>],
    [text |-> <<"o", "k">>,
   digest |-> <<"4", "4", "4", "b", "c", "b", "3", "a", "3", "f", "c", "f", "8", "3", "8", "9", "2", "9", "6", "c", "4", "9", "4", "6", "7", "f", "2", "7", "e", "1", "d", "6">>],
    [text |-> <<"c", "a", "t">>,
   digest |-> <<"d", "0", "7", "7", "f", "2", "4", "4", "d", "e", "f", "8", "a", "7", "0", "e", "5", "e", "a", "7", "5", "8", "b", "d", "8", "3", "5", "2", "f", "c", "d", "8">>],
    [text |-> <<"d", "o", "g">>,
   digest |-> <<"0", "6", "d", "8", "0", "e", "b", "0", "c", "5", "0", "b", "4", "9", "a", "5", "0", "9", "b", "4", "9", "f", "2", "4", "2", "4", "e", "8", "c", "8", "0", "5">>],
    [text |-> <<"r", "e", "d">>,
   digest |-> <<"b", "d", "a", "9", "6", "4", "3", "a", "c", "6", "6", "0", "1", "7", "2", "2", "a", "2", "8", "f", "2", "3", "8", "7", "1", "4", "2", "7", "4", "d", "a", "4">>],
    [text |-> <<"m", "u", "g">>,
   digest |-> <<"4", "c", "0", "3", "2", "8", "3", "3", "c", "7", "1", "1", "8", "2", "7", "6", "e", "8", "3", "e", "e", "9", "0", "9", "9", "8", "b", "a", "4", "7", "c", "f">>],
    [text |-> <<"p", "e", "n">>,
   digest |-> <<"0", "3", "f", "0", "0", "e", "8", "e", "9", "d", "0", "d", "0", "8", "4", "7", "b", "b", "1", "0", "a", "3", "a", "2", "2", "3", "3", "4", "2", "7", "4", "a">>],
    [text |-> <<"c", "a", "p">>,
   digest |-> <<"3", "d", "7", "9", "1", "e", "4", "3", "c", "8", "d", "5", "5", "6", "1", "e", "3", "6", "b", "d", "0", "9", "b", "a", "c", "c", "0", "9", "7", "5", "1", "7">>],
    [text |-> <<"b", "a", "g">>,
   digest |-> <<"4", "a", "8", "2", "7", "1", "5", "4", "2", "3", "d", "6", "5", "4", "d", "6", "1", "8", "3", "8", "e", "8", "1", "0", "6", "0", "a", "4", "c", "d", "f", "1">>],
    [text |-> <<"h", "a", "t">>,
   digest |-> <<"4", "6", "b", "5", "e", "5", "9", "b", "2", "f", "d", "3", "4", "2", "b", "f", "8", "f", "e", "e", "1", "0", "c", "5", "6", "1", "9", "5", "8", "7", "2", "5">>],
    [text |-> <<"t", "o", "y">>,
   digest |-> <<"1", "0", "0", "1", "6", "b", "6", "e", "d", "5", "a", "5", "b", "0", "9", "b", "e", "0", "8", "1", "3", "3", "f", "a", "2", "d", "2", "8", "2", "6", "3", "6">>],
    [text |-> <<"T", "V">>,
   digest |-> <<"2", "7", "1", "d", "d", "f", "8", "2", "9", "a", "f", "e", "e", "c", "e", "4", "4", "d", "8", "7", "3", "2", "7", "5", "7", "f", "b", "a", "1", "a", "6", "6">>],
    [text |-> <<"P", "c">>,
   digest |-> <<"d", "3", "0", "f", "a", "5", "d", "f", "5", "1", "1", "3", "2", "0", "7", "6", "5", "7", "6", "3", "b", "9", "7", "2", "9", "0", "9", "c", "4", "a", "9", "2">>],
    [text |-> <<"a", " ", "b">>,
   digest |-> <<"0", "c", "c", "9", "c", "d", "4", "d", "d", "2", "6", "c", "5", "1", "3", "7", "b", "6", "7", "5", "a", "0", "d", "8", "1", "9", "c", "b", "9", "a", "b", "0">>],
    [text |-> <<"a", ",", "b">>,
   digest |-> <<"b", "3", "4", "5", "e", "1", "d", "c", "0", "9", "f", "2", "0", "f", "d", "e", "f", "d", "e", "a", "4", "6", "9", "f", "0", "9", "1", "6", "7", "8", "9", "2">>],
    [text |-> <<"1">>,
   digest |-> <<"c", "4", "c", "a", "4", "2", "3", "8", "a", "0", "b", "9", "2", "3", "8", "2", "0", "d", "c", "c", "5", "0", "9", "a", "6", "f", "7", "5", "8", "4", "9", "b">>],
    [text |-> <<"2">>,
   digest |-> <<"c", "8", "1", "e", "7", "2", "8", "d", "9", "d", "4", "c", "2", "f", "6", "3", "6", "f", "0", "6", "7", "f", "8", "9", "c", "c", "1", "4", "8", "6", "2", "c">>],
    [text |-> <<"4", "2">>,
   digest |-> <<"a", "1", "d", "0", "c", "6", "e", "8", "3", "f", "0", "2", "7", "3", "2", "7", "d", "8", "4", "6", "1", "0", "6", "3", "f", "4", "a", "c", "5", "8", "a", "6">>],
    [text |-> <<"x", "1">>,
   digest |-> <<"6", "d", "b", "f", "9", "a", "c", "2", "d", "a", "0", "9", "e", "e", "1", "d", "3", "d", "e", "b", "f", "5", "a", "5", "1", "8", "7", "3", "e", "c", "6", "d">>],
    [text |-> <<"u", "s", "b">>,
   digest |-> <<"6", "2", "e", "d", "9", "7", "3", "d", "9", "6", "3", "9", "1", "3", "b", "b", "5", "5", "1", "1", "1", "a", "7", "b", "8", "1", "1", "6", "a", "c", "e", "1">>],
    [text |-> <<"l", "e", "d">>,
   digest |-> <<"0", "b", "9", "8", "f", "7", "b", "c", "5", "6", "c", "6", "a", "f", "5", "6", "7", "9", "9", "3", "4", "7", "f", "6", "9", "c", "1", "c", "c", "7", "7", "0">>],
    [text |-> <<"k", "i", "t">>,
   digest |-> <<"f", "f", "a", "0", "4", "4", "f", "5", "d", "1", "8", "9", "7", "4", "a", "3", "2", "6", "4", "c", "2", "3", "a", "5", "e", "1", "e", "0", "6", "2", "1", "7">>],
    [text |-> <<"f", "a", "n">>,
   digest |-> <<"5", "0", "b", "d", "8", "c", "2", "1", "b", "f", "a", "f", "a", "6", "e", "4", "e", "9", "6", "2", "f", "6", "a", "9", "4", "8", "b", "1", "e", "f", "9", "2">>],
    [text |-> <<"j", "a", "r">>,
   digest |-> <<"6", "8", "9", "9", "5", "f", "c", "b", "f", "4", "3", "2", "4", "9", "2", "d", "1", "5", "4", "8", "4", "d", "0", "4", "a", "9", "d", "2", "a", "c", "4", "0">>],
    [text |-> <<"m", "a", "p">>,
   digest |-> <<"1", "d", "7", "8", "d", "c", "8", "e", "d", "5", "1", "2", "1", "4", "e", "5", "1", "8", "b", "5", "1", "1", "4", "f", "e", "2", "4", "4", "9", "0", "a", "e">>],
    [text |-> <<"n", "e", "t">>,
   digest |-> <<"4", "0", "f", "a", "7", "3", "c", "9", "d", "0", "0", "8", "3", "0", "4", "3", "c", "6", "5", "7", "6", "d", "d", "2", "b", "4", "0", "5", "1", "1", "e", "4">>],
    [text |-> <<"o", "i", "l">>,
   digest |-> <<"c", "5", "a", "f", "0", "5", "4", "3", "4", "0", "7", "a", "6", "e", "8", "b", "a", "1", "1", "d", "b", "6", "a", "6", "9", "f", "7", "9", "2", "0", "1", "4">>],
    [text |-> <<"p", "a", "n">>,
   digest |-> <<"9", "6", "a", "c", "0", "3", "4", "2", "a", "3", "c", "c", "f", "9", "5", "5", "3", "e", "3", "d", "4", "c", "9", "d", "a", "9", "b", "8", "2", "1", "b", "0">>],
    [text |-> <<"r", "u", "g">>,
   digest |-> <<"7", "1", "7", "d", "e", "6", "8", "e", "8", "1", "3", "c", "2", "5", "9", "6", "d", "4", "1", "f", "e", "d", "d", "5", "f", "5", "7", "3", "3", "c", "c", "f">>],
    [text |-> <<"s", "u", "n">>,
   digest |-> <<"e", "b", "d", "5", "5", "6", "e", "6", "d", "f", "c", "9", "9", "d", "b", "e", "d", "2", "9", "6", "7", "5", "c", "e", "1", "c", "6", "c", "6", "8", "e", "5">>],
    [text |-> <<"t", "_">>,
   digest |-> <<"3", "3", "d", "8", "8", "f", "7", "f", "c", "0", "5", "5", "a", "0", "e", "6", "9", "8", "1", "5", "2", "a", "c", "9", "1", "a", "7", "1", "d", "d", "e", "f">>],
    [text |-> <<"%">>,
   digest |-> <<"0", "b", "c", "e", "f", "9", "c", "4", "5", "b", "d", "8", "a", "4", "8", "e", "d", "a", "1", "b", "2", "6", "e", "b", "0", "c", "6", "1", "c", "8", "6", "9">>]>>

md5_hexdigest(t) ==
    MD5Table[CHOOSE k \in DOMAIN MD5Table : MD5Table[k].text = t].digest

\* mutant: the digest is walked with a modulus that is one short
generate_embedding_31(t) ==
    IF ~Encodable(t) THEN [j \in 1..768 |-> Zero]
    ELSE LET text_hash == md5_hexdigest(t)
         IN  [j \in 1..embedding_size |->
                 LET i == j - 1
                     hash_part == text_hash[(i % (Len(text_hash) - 1)) + 1]
                 IN  Rat(ord(hash_part) - ord("a"), 26)]

\* the j-th component (1-indexed) is the code's embedding[i] with i = j - 1
generate_embedding(t) ==
    IF ~Encodable(t) THEN [j \in 1..768 |-> Zero]
    ELSE LET text_hash == md5_hexdigest(t)
         IN  [j \in 1..embedding_size |->
                 LET i == j - 1
                     hash_part == text_hash[(i % Len(text_hash)) + 1]
                 IN  Rat(ord(hash_part) - ord("a"), 26)]

EmbedTexts ==
    { MD5Table[k].text : k \in DOMAIN MD5Table }
    \cup { <<Surrogate>>, <<"a", Surrogate>> }

InitEmbed ==
    /\ text \in EmbedTexts
    /\ history = <<>>
    /\ ai_forecast = AIDown
    /\ today = 0
    /\ products = <<>>
    /\ embeddings = {}
    /\ tables = NoTables
    /\ call = NoCall

GenerateEmbedding ==
    /\ call = NoCall
    /\ call' = [op |-> "generate_embedding", ret |-> generate_embedding(text)]
    /\ UNCHANGED <<history, today, ai_forecast, text, products, embeddings, tables>>

\* the caller, holding the vector of an earlier call, embeds the same text again
GenerateEmbeddingAgain ==
    /\ call.op = "generate_embedding"
    /\ call' = [op |-> "generate_embedding", ret |-> generate_embedding(text),
                earlier |-> call.ret]
    /\ UNCHANGED <<history, today, ai_forecast, text, products, embeddings, tables>>

NextEmbed ==
    \/ Return
    \/ GenerateEmbedding
    \/ GenerateEmbeddingAgain

SpecEmbed == InitEmbed /\ [][NextEmbed]_vars

(***************************************************************************)
(* Claims about SimpleAIEngine.generate_embedding.                         *)
(***************************************************************************)
EmbeddingReturned == call.op = "generate_embedding"

\* C11 as stated: every component of the returned vector equals k/26 for
\* some integer k in 0..5, and so lies in [0, 1].
C11_ComponentsInUnitInterval ==
    EmbeddingReturned =>
        \A j \in 1..Len(call.ret) :
            /\ \E k \in 0..5 : call.ret[j] = Rat(k, 26)
            /\ RatGeq(call.ret[j], Zero)
            /\ RatGeq(One, call.ret[j])

MaxKeywordFragments == 3
MaxKeywords == 2

\* \w for the characters of the model: letters, digits and the underscore
IsWordChar(c) ==
    \/ \E i \in 1..26 : LowerCase[i] = c \/ UpperCase[i] = c
    \/ \E i \in 1..10 : Digits[i] = c
    \/ c = "_"

\* the places at which a maximal run of word characters starts
WordStarts(s) ==
    { i \in 1..Len(s) : IsWordChar(s[i]) /\ (i = 1 \/ ~IsWordChar(s[i - 1])) }

\* the place at which the run starting at i ends
WordEnd(s, i) ==
    CHOOSE j \in i..Len(s) :
        /\ \A k \in i..j : IsWordChar(s[k])
        /\ (j = Len(s) \/ ~IsWordChar(s[j + 1]))

\* the members of a set of places, in increasing order
InOrder(places) ==
    [k \in 1..Cardinality(places) |->
        CHOOSE i \in places : Cardinality({ j \in places : j < i }) = k - 1]

\* re.findall(r'\b\w+\b', s)
findall_words(s) ==
    LET starts == InOrder(WordStarts(s))
    IN  [k \in 1..Len(starts) |-> SubSeq(s, starts[k], WordEnd(s, starts[k]))]

stop_words ==
    { <<"t", "h", "e">>,
      <<"a">>,
      <<"a", "n">>,
      <<"a", "n", "d">>,
      <<"o", "r">>,
      <<"b", "u", "t">>,
      <<"i", "n">>,
      <<"o", "n">>,
      <<"a", "t">>,
      <<"t", "o">>,
      <<"f", "o", "r">>,
      <<"o", "f">>,
      <<"w", "i", "t", "h">>,
      <<"b", "y">>,
      <<"i", "s">>,
      <<"a", "r", "e">>,
      <<"w", "a", "s">>,
      <<"w", "e", "r", "e">>,
      <<"b", "e">>,
      <<"b", "e", "e", "n">>,
      <<"h", "a", "v", "e">>,
      <<"h", "a", "s">>,
      <<"h", "a", "d">>,
      <<"d", "o">>,
      <<"d", "o", "e", "s">>,
      <<"d", "i", "d">>,
      <<"w", "i", "l", "l">>,
      <<"w", "o", "u", "l", "d">>,
      <<"c", "o", "u", "l", "d">>,
      <<"s", "h", "o", "u", "l", "d">>,
      <<"m", "a", "y">>,
      <<"m", "i", "g", "h", "t">>,
      <<"c", "a", "n">>,
      <<"t", "h", "i", "s">>,
      <<"t", "h", "a", "t">>,
      <<"t", "h", "e", "s", "e">>,
      <<"t", "h", "o", "s", "e">>,
      <<"i">>,
      <<"y", "o", "u">>,
      <<"h", "e">>,
      <<"s", "h", "e">>,
      <<"i", "t">>,
      <<"w", "e">>,
      <<"t", "h", "e", "y">>,
      <<"m", "e">>,
      <<"h", "i", "m">>,
      <<"h", "e", "r">>,
      <<"u", "s">>,
      <<"t", "h", "e", "m">> }

\* mutant: the stop-word test is lost
KeepWord_any(word) == Len(word) > 2

\* word not in stop_words and len(word) > 2
KeepWord(word) == word \notin stop_words /\ Len(word) > 2

\* Counter(words): its keys in the order of their first appearance, and counts
Counter(words) ==
    LET firsts == { i \in 1..Len(words) : \A j \in 1..(i - 1) : words[j] # words[i] }
        order == InOrder(firsts)
    IN  [keys |-> [k \in 1..Len(order) |-> words[order[k]]],
         count |-> [w \in { words[i] : i \in 1..Len(words) } |->
                       Cardinality({ i \in 1..Len(words) : words[i] = w })]]

\* mutant: a key goes before the keys of its own count (the sort is not stable)
InsertByCount_first(sorted, key, count) ==
    LET p == Cardinality({ i \in 1..Len(sorted) : count[sorted[i]] > count[key] })
    IN  SubSeq(sorted, 1, p) \o <<key>> \o SubSeq(sorted, p + 1, Len(sorted))

\* one step of the stable descending sort: key goes after every key whose
\* count is at least its own
InsertByCount(sorted, key, count) ==
    LET p == Cardinality({ i \in 1..Len(sorted) : count[sorted[i]] >= count[key] })
    IN  SubSeq(sorted, 1, p) \o <<key>> \o SubSeq(sorted, p + 1, Len(sorted))

\* sorted(items, key=count, reverse=True) over the keys in insertion order
RECURSIVE SortedByCount(_, _)
SortedByCount(keys, count) ==
    IF keys = <<>> THEN <<>>
    ELSE InsertByCount(SortedByCount(SubSeq(keys, 1, Len(keys) - 1), count),
                       keys[Len(keys)], count)

\* Counter.most_common(n) for n >= 0, keys only
most_common(counter, n) ==
    LET sorted == SortedByCount(counter.keys, counter.count)
    IN  SubSeq(sorted, 1, Min(n, Len(sorted)))

extract_keywords(t, max_keywords) ==
    LET words == findall_words(lower(t))
        filtered_words == SelectSeq(words, KeepWord)
        word_counts == Counter(filtered_words)
    IN  most_common(word_counts, max_keywords)

(***************************************************************************)
(* Inputs of extract_keywords: texts put together from a few fragments.    *)
(***************************************************************************)
KeywordFragments ==
    << <<"t", "h", "e", " ", "t", "h", "e", " ", "t", "h", "e", " ">>,
       <<"d", "o", "g", " ", "d", "o", "g", " ">>,
       <<"c", "a", "t">>,
       <<" ", "C", "a", "t", " ">>,
       <<"a", "n", " ", "o", "x", ",", " ">>,
       <<"D", "O", "G", "-">>,
       <<"b", "e", "e", " ", "b", "e", "e", " ">>,
       <<"w", "o", "u", "l", "d", " ">> >>

KeywordPicks ==
    UNION { [1..k -> 1..Len(KeywordFragments)] : k \in 0..MaxKeywordFragments }

KeywordTexts ==
    { Concat([i \in DOMAIN pick |-> KeywordFragments[pick[i]]]) : pick \in KeywordPicks }

InitKeywords ==
    /\ text \in KeywordTexts
    /\ history = <<>>
    /\ ai_forecast = AIDown
    /\ today = 0
    /\ products = <<>>
    /\ embeddings = {}
    /\ tables = NoTables
    /\ call = NoCall

ExtractKeywords ==
    \E max_keywords \in 0..MaxKeywords :
        /\ call = NoCall
        /\ call' = [op |-> "extract_keywords", max_keywords |-> max_keywords,
                    ret |-> extract_keywords(text, max_keywords)]
        /\ UNCHANGED <<history, today, ai_forecast, text, products, embeddings, tables>>

NextKeywords ==
    \/ Return
    \/ ExtractKeywords

SpecKeywords == InitKeywords /\ [][NextKeywords]_vars

(***************************************************************************)
(* Claims about SimpleAIEngine.extract_keywords.                           *)
(***************************************************************************)
KeywordsReturned == call.op = "extract_keywords"

\* C13: extract_keywords returns at most max_keywords items, and no returned
\* item is a stop word or has length <= 2.
C13_AtMostKNoStopWords ==
    KeywordsReturned =>
        /\ Len(call.ret) <= call.max_keywords
        /\ \A i \in 1..Len(call.ret) :
               call.ret[i] \notin stop_words /\ Len(call.ret[i]) > 2

C13_Witness ==
    /\ KeywordsReturned
    /\ Len(call.ret) = call.max_keywords
    /\ call.max_keywords >= 2
    /\ \E i \in 1..Len(findall_words(lower(text))) :
           findall_words(lower(text))[i] \in stop_words
    /\ \E i \in 1..Len(findall_words(lower(text))) :
           Len(findall_words(lower(text))[i]) <= 2

\* the lower-cased tokens of the text that are neither stop words nor short
Survivors == SelectSeq(findall_words(lower(text)), KeepWord)

Frequency(w) == Cardinality({ i \in 1..Len(Survivors) : Survivors[i] = w })

FirstSeen(w) == CHOOSE i \in 1..Len(Survivors) :
                    /\ Survivors[i] = w
                    /\ \A j \in 1..(i - 1) : Survivors[j] # w

\* a ranks before b: more frequent, or as frequent and seen first
RanksBefore(a, b) ==
    \/ Frequency(a) > Frequency(b)
    \/ Frequency(a) = Frequency(b) /\ FirstSeen(a) < FirstSeen(b)

\* C14: extract_keywords returns the distinct surviving lower-cased tokens in
\* descending order of frequency, equally frequent tokens in the order of
\* their first appearance, cut to the first max_keywords; all of them when
\* there are fewer; 'the the the dog dog cat' with 2 gives ['dog', 'cat'].
C14_ByFrequencyThenFirstSeen ==
    KeywordsReturned =>
        LET distinct == { Survivors[i] : i \in 1..Len(Survivors) }
            r == call.ret
        IN  /\ Len(r) = Min(call.max_keywords, Cardinality(distinct))
            /\ \A i \in 1..Len(r) : r[i] \in distinct
            /\ \A i, j \in 1..Len(r) : i < j => RanksBefore(r[i], r[j])
            /\ \A x \in distinct : (\A i \in 1..Len(r) : r[i] # x) =>
                   \A i \in 1..Len(r) : RanksBefore(r[i], x)
            /\ (/\ text = KeywordFragments[1] \o KeywordFragments[2]
                              \o KeywordFragments[3]
                /\ call.max_keywords = 2)
                   => r = << <<"d", "o", "g">>, <<"c", "a", "t">> >>

\* two equally frequent tokens, the one seen first returned alone
C14_Witness ==
    /\ KeywordsReturned
    /\ call.max_keywords = 1
    /\ Len(call.ret) = 1
    /\ \E x \in { Survivors[i] : i \in 1..Len(Survivors) } :
           /\ x # call.ret[1]
           /\ Frequency(x) = Frequency(call.ret[1])
           /\ Frequency(x) >= 2

(***************************************************************************)
(* SimpleForecastingEngine: the three strategies applied to a series       *)
(* directly, and get_trend_analysis.                                       *)
(***************************************************************************)
MaxStrategyPeriods == 7
MaxElapsedDays == 7

\* mutant: the difference of the averages keeps its sign (abs is lost)
get_trend_analysis_signed(rows, raised) ==
    IF raised \/ Len(rows) < 2
    THEN [trend_direction |-> "stable", trend_strength |-> Zero,
          recent_average_daily_sales |-> Zero,
          trend_data |-> IF raised THEN <<>> ELSE rows]
    ELSE LET recent_avg == mean(LastN(rows, 7))
             older_avg == IF Len(rows) >= 14 THEN mean(PriorWeek(rows))
                          ELSE recent_avg
         IN  [trend_direction |->
                  IF RatLt(older_avg, recent_avg) THEN "increasing"
                  ELSE IF RatLt(recent_avg, older_avg) THEN "decreasing"
                  ELSE "stable",
              trend_strength |->
                  RatDiv(RatSub(recent_avg, older_avg), RatMax(older_avg, One)),
              recent_average_daily_sales |-> recent_avg,
              trend_data |-> rows]

\* `rows` is what the daily-sales query returned, `raised` whether it raised
get_trend_analysis(rows, raised) ==
    IF raised
    THEN [trend_direction |-> "stable", trend_strength |-> Zero,
          recent_average_daily_sales |-> Zero, trend_data |-> <<>>]
    ELSE IF Len(rows) < 2
    THEN [trend_direction |-> "stable", trend_strength |-> Zero,
          recent_average_daily_sales |-> Zero, trend_data |-> rows]
    ELSE LET recent_avg == mean(LastN(rows, 7))
             older_avg == IF Len(rows) >= 14 THEN mean(PriorWeek(rows))
                          ELSE recent_avg
         IN  [trend_direction |->
                  IF RatLt(older_avg, recent_avg) THEN "increasing"
                  ELSE IF RatLt(recent_avg, older_avg) THEN "decreasing"
                  ELSE "stable",
              trend_strength |->
                  RatDiv(RatAbs(RatSub(recent_avg, older_avg)),
                         RatMax(older_avg, One)),
              recent_average_daily_sales |-> recent_avg,
              trend_data |-> rows]

StrategyOps == {"_calculate_moving_average_forecast", "_calculate_trend_forecast",
                "_calculate_seasonal_forecast"}

Strategy(op, series, periods, now) ==
    CASE op = "_calculate_moving_average_forecast" ->
             _calculate_moving_average_forecast(series, periods, now)
      [] op = "_calculate_trend_forecast" ->
             _calculate_trend_forecast(series, periods, now)
      [] op = "_calculate_seasonal_forecast" ->
             _calculate_seasonal_forecast(series, periods, now)

InitStrategies ==
    /\ history \in Histories
    /\ today \in 0..6
    /\ ai_forecast = AIDown
    /\ text = <<>>
    /\ products = <<>>
    /\ embeddings = {}
    /\ tables = NoTables
    /\ call = NoCall

\* `at` is the day of the call
CalculateMovingAverageForecast ==
    \E periods \in 0..MaxStrategyPeriods :
        /\ call = NoCall
        /\ call' = [op |-> "_calculate_moving_average_forecast",
                    periods |-> periods, at |-> today,
                    ret |-> _calculate_moving_average_forecast(history, periods, today)]
        /\ UNCHANGED <<history, today, ai_forecast, text, products, embeddings, tables>>

CalculateTrendForecast ==
    \E periods \in 0..MaxStrategyPeriods :
        /\ call = NoCall
        /\ call' = [op |-> "_calculate_trend_forecast",
                    periods |-> periods, at |-> today,
                    ret |-> _calculate_trend_forecast(history, periods, today)]
        /\ UNCHANGED <<history, today, ai_forecast, text, products, embeddings, tables>>

CalculateSeasonalForecast ==
    \E periods \in 0..MaxStrategyPeriods :
        /\ call = NoCall
        /\ call' = [op |-> "_calculate_seasonal_forecast",
                    periods |-> periods, at |-> today,
                    ret |-> _calculate_seasonal_forecast(history, periods, today)]
        /\ UNCHANGED <<history, today, ai_forecast, text, products, embeddings, tables>>

GetTrendAnalysis ==
    \E raised \in BOOLEAN :
        /\ call = NoCall
        /\ call' = [op |-> "get_trend_analysis", raised |-> raised,
                    ret |-> get_trend_analysis(history, raised)]
        /\ UNCHANGED <<history, today, ai_forecast, text, products, embeddings, tables>>

NextStrategies ==
    \/ Return
    \/ CalculateMovingAverageForecast
    \/ CalculateTrendForecast
    \/ CalculateSeasonalForecast
    \/ GetTrendAnalysis

SpecStrategies == InitStrategies /\ [][NextStrategies]_vars

(***************************************************************************)
(* The same strategy called twice on the same series, days apart.          *)
(***************************************************************************)
InitPurity ==
    /\ history \in { h \in Histories : Len(h) <= 1 }
    /\ today = 0
    /\ ai_forecast = AIDown
    /\ text = <<>>
    /\ products = <<>>
    /\ embeddings = {}
    /\ tables = NoTables
    /\ call = NoCall

\* a day passes: datetime.now() moves on
Tick ==
    /\ today < MaxElapsedDays
    /\ today' = today + 1
    /\ UNCHANGED <<history, ai_forecast, text, products, embeddings, tables, call>>

\* the caller, holding the result of an earlier call, makes the same call again
CalculateAgain ==
    /\ call.op \in StrategyOps
    /\ call' = [op |-> call.op, periods |-> call.periods, at |-> today,
                ret |-> Strategy(call.op, history, call.periods, today),
                earlier |-> [at |-> call.at, ret |-> call.ret]]
    /\ UNCHANGED <<history, today, ai_forecast, text, products, embeddings, tables>>

NextPurity ==
    \/ Return
    \/ CalculateMovingAverageForecast
    \/ CalculateTrendForecast
    \/ CalculateSeasonalForecast
    \/ Tick
    \/ CalculateAgain

SpecPurity == InitPurity /\ [][NextPurity]_vars

(***************************************************************************)
(* Claims about the strategies and get_trend_analysis.                     *)
(***************************************************************************)
Triples(points) ==
    [i \in 1..Len(points) |->
        <<points[i].period, points[i].value, points[i].confidence>>]

CalledAgain == call.op \in StrategyOps /\ HasKey(call, "earlier")

RECURSIVE SumOfRange(_, _, _)
SumOfRange(xs, a, b) == IF a > b THEN 0 ELSE xs[b] + SumOfRange(xs, a, b - 1)

\* the mean of the last k of the observations, k >= 1
MeanOfLast(k) ==
    Rat(SumOfRange(history, Len(history) - k + 1, Len(history)), k)

\* the mean of the last 7 observations, of all of them when there are fewer
RecentMean == MeanOfLast(IF Len(history) >= 7 THEN 7 ELSE Len(history))

\* the mean of the 7 observations before the last 7; RecentMean without them
PriorMean ==
    IF Len(history) >= 14
    THEN Rat(SumOfRange(history, Len(history) - 13, Len(history) - 7), 7)
    ELSE RecentMean

\* C16: the moving-average forecast gives each of its periods points the mean
\* of the last 7 observations (of all of them when there are 1 to 6, and 1
\* when there are none), with confidence 0.8.
C16_MovingAverageConstant ==
    call.op = "_calculate_moving_average_forecast" =>
        LET expected == IF history = <<>> THEN Int2Rat(1) ELSE RecentMean
        IN  /\ Len(call.ret) = call.periods
            /\ \A i \in 1..Len(call.ret) :
                   /\ call.ret[i].value = expected
                   /\ call.ret[i].confidence = Rat(8, 10)

C16_Witness ==
    /\ call.op = "_calculate_moving_average_forecast"
    /\ call.periods >= 2
    /\ Len(history) > 7
    /\ MeanOfLast(7) # MeanOfLast(Len(history))
    /\ call.ret[2].value = MeanOfLast(7)

\* C17: with recent the mean of the last 7 observations, prior the mean of
\* the 7 before those (recent when there are not 14) and trend =
\* (recent - prior) / max(prior, 1), the trend-adjusted forecast gives point
\* i the value max(0, recent * (1 + trend * i)) with confidence 0.75; the
\* denominator is at least 1, and with fewer than 14 observations every
\* point has the same value, recent floored at 0.
C17_TrendAdjusted ==
    (call.op = "_calculate_trend_forecast" /\ history # <<>>) =>
        LET recent == RecentMean
            prior == PriorMean
            denominator == IF RatGeq(prior, One) THEN prior ELSE One
            trend == RatDiv(RatSub(recent, prior), denominator)
            raw(i) == RatMul(recent, RatAdd(One, RatMul(trend, Int2Rat(i))))
        IN  /\ RatGeq(denominator, One)
            /\ Len(call.ret) = call.periods
            /\ \A i \in 1..Len(call.ret) :
                   /\ call.ret[i].value
                          = (IF RatGeq(raw(i), Zero) THEN raw(i) ELSE Zero)
                   /\ call.ret[i].confidence = Rat(75, 100)
                   /\ Len(history) < 14 =>
                          /\ RatGeq(recent, Zero) => call.ret[i].value = recent
                          /\ RatLt(recent, Zero) => call.ret[i].value = Zero

C17_Witness ==
    /\ call.op = "_calculate_trend_forecast"
    /\ Len(history) >= 14
    /\ call.periods >= 2
    /\ RatLt(Zero, call.ret[1].value)
    /\ RatLt(call.ret[1].value, call.ret[2].value)

WeekdayFactor(day_of_week) ==
    CASE day_of_week \in {4, 5} -> Rat(12, 10)
      [] day_of_week = 0 -> Rat(9, 10)
      [] OTHER -> Int2Rat(1)

\* the points of periods a..a+6 whose forecast date has the factor f
PointsWithFactor(a, f) ==
    { i \in a..(a + 6) : WeekdayFactor(call.ret[i].date % 7) = f }

\* C18: the seasonal forecast gives point i the value max(0, avg * f_i) with
\* confidence 0.7, avg the mean of the last 7 observations (of all of them
\* when there are fewer) and f_i the factor of the weekday of the forecast
\* date, call date + i days; over any 7 consecutive periods two points have
\* the factor 1.2, one has 0.9 and four have 1.0.
C18_SeasonalByWeekday ==
    (call.op = "_calculate_seasonal_forecast" /\ history # <<>>) =>
        /\ Len(call.ret) = call.periods
        /\ \A i \in 1..Len(call.ret) :
               LET raw == RatMul(RecentMean, WeekdayFactor((call.at + i) % 7))
               IN  /\ call.ret[i].date = call.at + i
                   /\ call.ret[i].value = (IF RatGeq(raw, Zero) THEN raw ELSE Zero)
                   /\ call.ret[i].confidence = Rat(7, 10)
        /\ \A a \in 1..(Len(call.ret) - 6) :
               /\ Cardinality(PointsWithFactor(a, Rat(12, 10))) = 2
               /\ Cardinality(PointsWithFactor(a, Rat(9, 10))) = 1
               /\ Cardinality(PointsWithFactor(a, Int2Rat(1))) = 4

C18_Witness ==
    /\ call.op = "_calculate_seasonal_forecast"
    /\ call.periods >= 7
    /\ history # <<>>
    /\ RatLt(Zero, RecentMean)
    /\ Cardinality({ i \in 1..7 :
                       call.ret[i].value = RatMul(RecentMean, Rat(12, 10)) }) = 2
    /\ Cardinality({ i \in 1..7 :
                       call.ret[i].value = RatMul(RecentMean, Rat(9, 10)) }) = 1

\* C28 as stated: the seasonal forecast applies the factor 1.2 to exactly the
\* forecast dates that fall on a Saturday or a Sunday (weekday() 5 or 6).
C28_BoostOnSaturdayAndSunday ==
    (/\ call.op = "_calculate_seasonal_forecast"
     /\ history # <<>>
     /\ RatLt(Zero, RecentMean)) =>
        \A i \in DOMAIN call.ret :
            call.ret[i].value = RatMul(RecentMean, Rat(12, 10))
                <=> call.ret[i].date % 7 \in {5, 6}

\* C19: with at least 2 observations get_trend_analysis reports 'increasing'
\* if recent > older, 'decreasing' if recent < older and 'stable' if they are
\* equal, and trend_strength = |recent - older| / max(older, 1), recent the
\* mean of the last 7 values and older that of the preceding 7 (recent when
\* there are not 14); with fewer than 2 it reports 'stable', strength 0.
C19_TrendDirectionAndStrength ==
    (call.op = "get_trend_analysis" /\ ~call.raised) =>
        IF Len(history) < 2
        THEN /\ call.ret.trend_direction = "stable"
             /\ call.ret.trend_strength = Zero
        ELSE LET recent == RecentMean
                 older == PriorMean
                 gap == IF RatGeq(recent, older) THEN RatSub(recent, older)
                        ELSE RatSub(older, recent)
                 denominator == IF RatGeq(older, One) THEN older ELSE One
             IN  /\ call.ret.trend_direction = "increasing" <=> RatLt(older, recent)
                 /\ call.ret.trend_direction = "decreasing" <=> RatLt(recent, older)
                 /\ call.ret.trend_direction = "stable" <=> recent = older
                 /\ call.ret.trend_strength = RatDiv(gap, denominator)

C19_Witness ==
    /\ call.op = "get_trend_analysis"
    /\ ~call.raised
    /\ Len(history) >= 14
    /\ call.ret.trend_direction = "decreasing"
    /\ RatLt(Zero, call.ret.trend_strength)

\* the product x sorts strictly before the result entry r
RanksAhead(x, r) ==
    \/ products[x].rating > r.rating
    \/ products[x].rating = r.rating /\ products[x].price < r.price

\* C22: when the category query answers, the result holds exactly the
\* in-stock products of the target's category other than the target, ordered
\* by rating descending then price ascending and truncated to top_k: no
\* product is returned twice, and no product left out ranks ahead of one
\* that is returned.
C22_CategoryTierExact ==
    (SearchReturned /\ LastQuery = Log("category", "ok")) =>
        LET eligible == Eligible("category")
        IN  /\ Len(call.ret) = Min(call.top_k, Cardinality(eligible))
            /\ ReturnedIds \subseteq eligible
            /\ Cardinality(ReturnedIds) = Len(call.ret)
            /\ \A i, j \in DOMAIN call.ret : i < j =>
                   ~RanksAhead(call.ret[j].product_id, call.ret[i])
            /\ \A x \in eligible \ ReturnedIds :
                   \A i \in DOMAIN call.ret : ~RanksAhead(x, call.ret[i])

C22_Witness ==
    /\ SearchReturned
    /\ LastQuery = Log("category", "ok")
    /\ Cardinality(Eligible("category")) = 2
    /\ call.top_k = 1
    /\ \E x \in Eligible("category") : RanksAhead(call.ret[1].product_id, ProductColumns(x))

\* the spec's example: the target's category holds one other in-stock product,
\* everything else is out of stock, and top_k exceeds the one candidate
C22_WitnessOnlyCandidate ==
    /\ SearchReturned
    /\ LastQuery = Log("category", "ok")
    /\ Cardinality(InStock) = 1
    /\ call.top_k > 1
    /\ Len(call.ret) = 1
    /\ call.ret[1].product_id \in InStock

\* cosine similarity of the target's stored embedding and that of id
SimilarityToTarget(id) ==
    CosineSimilarity(embeddings[call.product_id], embeddings[id])

\* C27 as stated: when the target has a stored embedding and the similarity
\* query succeeds, the call returns the other in-stock products that have
\* stored embeddings, by descending cosine similarity to the target,
\* truncated to top_k; the result is non-empty whenever such a product
\* exists (and top_k is at least 1).
C27_SimilarityTierAnswers ==
    (SearchReturned /\ LastQuery = Log("similarity", "ok")) =>
        LET eligible == Eligible("similarity")
        IN  /\ ReturnedIds \subseteq eligible
            /\ Len(call.ret) = Min(call.top_k, Cardinality(eligible))
            /\ \A i, j \in DOMAIN call.ret : i < j =>
                   RatGeq(SimilarityToTarget(call.ret[i].product_id),
                          SimilarityToTarget(call.ret[j].product_id))
            /\ (eligible # {} /\ call.top_k >= 1) => call.ret # <<>>

\* C29 as stated: whichever tier answers and whichever queries fail, the
\* list find_similar_products returns never holds the target product.
C29_TargetNeverReturned ==
    SearchReturned =>
        \A i \in DOMAIN call.ret : call.ret[i].product_id # call.product_id

(***************************************************************************)
(* find_similar_products over stored embeddings of norm 0.                 *)
(***************************************************************************)
\* the stored embeddings, the one of `zero` being the zero vector
ZeroNormEmbeddings(zero) ==
    [id \in ProductIds |-> IF id = zero THEN <<0, 0>> ELSE DefaultEmbedding(id)]

InitZeroNorm ==
    /\ products \in Catalogs
    /\ \E zero \in {"P1", "P2"} : embeddings = ZeroNormEmbeddings(zero)
    /\ tables = NoTables
    /\ history = <<>>
    /\ ai_forecast = AIDown
    /\ today = 0
    /\ text = <<>>
    /\ call = NoCall

SpecZeroNorm == InitZeroNorm /\ [][NextSearch]_vars

\* the in-stock products other than the target whose comparison with the
\* target's embedding has a norm of 0 on either side
ZeroNormCandidates ==
    { id \in (DOMAIN embeddings) \cap (DOMAIN products) :
        /\ id # call.product_id
        /\ products[id].stock_quantity > 0
        /\ DivisionByZero(embeddings[call.product_id], embeddings[id]) }

\* C20 as stated: when the target's embedding is compared with an embedding
\* of norm 0, or has norm 0 itself, the compared product is reported with
\* similarity_score 0 and no error is surfaced: a call none of whose queries
\* raised, with room for every candidate, returns each such product with
\* similarity_score 0.
C20_ZeroNormScoresZero ==
    (/\ SearchReturned
     /\ call.product_id \in DOMAIN embeddings
     /\ \A i \in DOMAIN call.queries : call.queries[i].outcome # "raised"
     /\ call.top_k >= Cardinality(ZeroNormCandidates))
        => \A id \in ZeroNormCandidates :
               \E i \in DOMAIN call.ret :
                   /\ call.ret[i].product_id = id
                   /\ call.ret[i].similarity_score = Zero

(***************************************************************************)
(* VectorSearchEngine.search_products_by_text.  The products of this part  *)
(* carry the text columns name, description, category and brand, each a    *)
(* sequence of characters.                                                 *)
(***************************************************************************)
\* s LIKE p: '%' stands for any run of characters, '_' for any one character
RECURSIVE Like(_, _)
Like(s, p) ==
    IF p = <<>> THEN s = <<>>
    ELSE IF Head(p) = "%"
         THEN Like(s, Tail(p)) \/ (s # <<>> /\ Like(Tail(s), p))
         ELSE /\ s # <<>>
              /\ Head(p) = "_" \/ Head(p) = Head(s)
              /\ Like(Tail(s), Tail(p))

\* LOWER(column) LIKE LOWER('%{search_text}%')
LikeSearchText(column, search_text) ==
    Like(lower(column), lower(<<"%">> \o search_text \o <<"%">>))

TextColumns(id, relevance_score) ==
    [product_id |-> id, name |-> products[id].name,
     description |-> products[id].description, price |-> products[id].price,
     category |-> products[id].category, rating |-> products[id].rating,
     stock_quantity |-> products[id].stock_quantity,
     relevance_score |-> relevance_score]

\* mutant: the fallback query also looks at the brand
TextSearchFallbackRows_brand(search_text) ==
    { id \in DOMAIN products :
        /\ products[id].stock_quantity > 0
        /\ \/ LikeSearchText(products[id].name, search_text)
           \/ LikeSearchText(products[id].description, search_text)
           \/ LikeSearchText(products[id].category, search_text)
           \/ LikeSearchText(products[id].brand, search_text) }

\* the rows the WHERE clause of _get_text_search_fallback selects
TextSearchFallbackRows(search_text) ==
    { id \in DOMAIN products :
        /\ products[id].stock_quantity > 0
        /\ \/ LikeSearchText(products[id].name, search_text)
           \/ LikeSearchText(products[id].description, search_text)
           \/ LikeSearchText(products[id].category, search_text) }

_get_text_search_fallback(search_text, top_k) ==
    LET selected == TextSearchFallbackRows(search_text)
    IN  After(<<Log("text_fallback", "raised")>>,
              _get_popular_products_recommendations(top_k))
        \cup
        { [queries |-> <<Log("text_fallback", "ok")>>,
           ret |-> [i \in DOMAIN rows |-> TextColumns(rows[i], Rat(5, 10))]] :
          rows \in OrderByLimit(selected, ByRatingThenPrice(selected), top_k) }

\* the rows the WHERE clause of search_products_by_text selects
TextSearchRows(search_text) ==
    { id \in DOMAIN products :
        /\ products[id].stock_quantity > 0
        /\ \/ LikeSearchText(products[id].name, search_text)
           \/ LikeSearchText(products[id].description, search_text)
           \/ LikeSearchText(products[id].category, search_text)
           \/ LikeSearchText(products[id].brand, search_text) }

search_products_by_text(search_text, top_k) ==
    LET search_embedding == generate_embedding(search_text)
    IN  IF DOMAIN search_embedding = {}
        THEN _get_text_search_fallback(search_text, top_k)
        ELSE LET selected == TextSearchRows(search_text)
             IN  After(<<Log("text", "raised")>>,
                       _get_text_search_fallback(search_text, top_k))
                 \cup
                 { [queries |-> <<Log("text", "ok")>>,
                    ret |-> [i \in DOMAIN rows |-> TextColumns(rows[i], Rat(8, 10))]] :
                   rows \in OrderByLimit(selected, ByRatingThenPrice(selected), top_k) }

TextRows ==
    [name : {<<"T", "V">>, <<"c", "a", "p">>}, description : {<<"l", "e", "d">>},
     category : {<<"p", "c">>}, brand : {<<"h", "i">>, <<"c", "a", "t">>},
     rating : {4, 5}, price : {10}, stock_quantity : {0, 5}]

TextCatalogs ==
    { [id \in ProductIds |->
          IF id = "P1" THEN r1
          ELSE IF id = "P2" THEN r2
          ELSE [name |-> <<"t", "o", "y">>, description |-> <<"r", "e", "d">>,
                category |-> <<"k", "i", "t">>, brand |-> <<"T", "v">>,
                rating |-> 4, price |-> 20, stock_quantity |-> 5]] :
        r1 \in TextRows, r2 \in TextRows }

SearchTexts ==
    { <<"t", "v">>, <<"T", "V">>, <<"c", "a", "t">>, <<"p", "c">>, <<"d", "o", "g">>,
      <<"t", "_">>, <<>>, <<Surrogate>> }

InitTextSearch ==
    /\ products \in TextCatalogs
    /\ embeddings = {}
    /\ tables = NoTables
    /\ history = <<>>
    /\ ai_forecast = AIDown
    /\ today = 0
    /\ text = <<>>
    /\ call = NoCall

SearchProductsByText ==
    /\ call = NoCall
    /\ \E search_text \in SearchTexts, top_k \in 0..MaxTopK :
        \E o \in search_products_by_text(search_text, top_k) :
            /\ call' = [op |-> "search_products_by_text", search_text |-> search_text,
                        top_k |-> top_k, queries |-> o.queries, ret |-> o.ret]
            /\ UNCHANGED <<history, today, ai_forecast, text, products, embeddings, tables>>

NextTextSearch ==
    \/ Return
    \/ SearchProductsByText

SpecTextSearch == InitTextSearch /\ [][NextTextSearch]_vars

\* search_text occurs, whatever the case of its letters, in one of the four
\* text columns of the product
HoldsSearchText(id) ==
    \/ Contains(lower(products[id].name), lower(call.search_text))
    \/ Contains(lower(products[id].description), lower(call.search_text))
    \/ Contains(lower(products[id].category), lower(call.search_text))
    \/ Contains(lower(products[id].brand), lower(call.search_text))

\* C21 as stated: every product returned by search_products_by_text, on the
\* main path and on every fallback path, is in stock, holds the search text
\* as a case-insensitive substring of its name, description, category or
\* brand, and carries the relevance_score of the main path; the results are
\* ordered by rating descending then price ascending and number at most
\* top_k.
C21_TextSearchResults ==
    call.op = "search_products_by_text" =>
        /\ Len(call.ret) <= call.top_k
        /\ \A i \in DOMAIN call.ret :
               /\ call.ret[i].stock_quantity > 0
               /\ HoldsSearchText(call.ret[i].product_id)
               /\ HasKey(call.ret[i], "relevance_score")
               /\ call.ret[i].relevance_score = Rat(8, 10)
        /\ \A i, j \in DOMAIN call.ret : i < j =>
               \/ call.ret[i].rating > call.ret[j].rating
               \/ /\ call.ret[i].rating = call.ret[j].rating
                  /\ call.ret[i].price <= call.ret[j].price

(***************************************************************************)
(* DataIngestion and ECommerceIntelligenceEngine.setup_database.  Each     *)
(* method is the set of its possible outcomes: a client call (create_table,*)
(* a query, insert_rows_json) may raise, and insert_rows_json may report   *)
(* row errors.  Rows are counted in batches of sample rows.                *)
(***************************************************************************)
MaxBatches == 2

\* client.create_table(table, exists_ok=True) on the first k tables
CreatedFirst(tb, k) ==
    [t \in DOMAIN tb |->
        IF \E i \in 1..k : TableNames[i] = t
        THEN [exists |-> TRUE, rows |-> tb[t].rows]
        ELSE tb[t]]

\* the k-th creation raising (k < 7) ends the method with False
create_tables(tb) ==
    { [tables |-> CreatedFirst(tb, k), ret |-> (k = Len(TableNames))] :
        k \in 0..Len(TableNames) }

\* False when the count query raises, as it does on a missing table
_table_has_data(tb, t) ==
    {FALSE} \cup (IF tb[t].exists THEN {tb[t].rows > 0} ELSE {})

\* client.insert_rows_json: it raises, reports row errors, or inserts
insert_rows_json(tb, t) ==
    { [tables |-> tb, raised |-> TRUE] }
    \cup
    ( IF tb[t].exists
      THEN { [tables |-> tb, raised |-> FALSE],
             [tables |-> [tb EXCEPT ![t].rows = @ + 1], raised |-> FALSE] }
      ELSE {} )

\* the tables each _load_sample_* method inserts into, keyed by the table
\* load_sample_data tests for data
SampleTables(t) == IF t = "orders" THEN <<"orders", "order_items">> ELSE <<t>>

RECURSIVE InsertEach(_, _, _)
InsertEach(tb, targets, i) ==
    IF i > Len(targets) THEN { [tables |-> tb, raised |-> FALSE] }
    ELSE UNION { IF o.raised THEN {o} ELSE InsertEach(o.tables, targets, i + 1) :
                 o \in insert_rows_json(tb, targets[i]) }

_load_sample(tb, t) == InsertEach(tb, SampleTables(t), 1)

\* the tables load_sample_data tests and loads, in order
SampleOrder == <<"products", "users", "orders", "reviews", "user_behavior">>

RECURSIVE LoadFrom(_, _)
LoadFrom(tb, i) ==
    IF i > Len(SampleOrder) THEN { [tables |-> tb, ret |-> TRUE] }
    ELSE UNION {
           IF has_data THEN LoadFrom(tb, i + 1)
           ELSE UNION { IF o.raised THEN { [tables |-> o.tables, ret |-> FALSE] }
                        ELSE LoadFrom(o.tables, i + 1) :
                        o \in _load_sample(tb, SampleOrder[i]) }
           : has_data \in _table_has_data(tb, SampleOrder[i]) }

load_sample_data(tb) == LoadFrom(tb, 1)

Step(name, outcome) == [step |-> name, outcome |-> outcome]

\* mutant: the result of load_sample_data is not looked at
setup_database_unchecked(tb) ==
    UNION { { [tables |-> l.tables, ret |-> c.ret,
               steps |-> <<Step("create_tables", "True"),
                           Step("load_sample_data", IF l.ret THEN "True" ELSE "False")>>] :
              l \in load_sample_data(c.tables) }
            : c \in create_tables(tb) }

\* data_ingestion is an attribute that callers replace (the tests patch its
\* methods), so a step may also raise; `steps` logs the steps invoked
setup_database(tb) ==
    { [tables |-> tb, ret |-> FALSE, steps |-> <<Step("create_tables", "raised")>>] }
    \cup
    UNION {
        IF ~c.ret
        THEN { [tables |-> c.tables, ret |-> FALSE,
                steps |-> <<Step("create_tables", "False")>>] }
        ELSE { [tables |-> c.tables, ret |-> FALSE,
                steps |-> <<Step("create_tables", "True"),
                            Step("load_sample_data", "raised")>>] }
             \cup
             { [tables |-> l.tables, ret |-> l.ret,
                steps |-> <<Step("create_tables", "True"),
                            Step("load_sample_data", IF l.ret THEN "True" ELSE "False")>>] :
               l \in load_sample_data(c.tables) }
        : c \in create_tables(tb) }

\* no table keeps more than MaxBatches batches of sample rows
RoomForSamples == \A t \in DOMAIN tables : tables[t].rows < MaxBatches

InitIngestion ==
    /\ products = <<>>
    /\ embeddings = {}
    /\ tables = NoTables
    /\ history = <<>>
    /\ ai_forecast = AIDown
    /\ today = 0
    /\ text = <<>>
    /\ call = NoCall

CreateTables ==
    /\ call = NoCall
    /\ \E o \in create_tables(tables) :
           /\ tables' = o.tables
           /\ call' = [op |-> "create_tables", ret |-> o.ret]
    /\ UNCHANGED <<history, today, ai_forecast, text, products, embeddings>>

LoadSampleData ==
    /\ call = NoCall
    /\ RoomForSamples
    /\ \E o \in load_sample_data(tables) :
           /\ tables' = o.tables
           /\ call' = [op |-> "load_sample_data", before |-> tables, ret |-> o.ret]
    /\ UNCHANGED <<history, today, ai_forecast, text, products, embeddings>>

\* the caller, holding the result of a call, calls load_sample_data again
LoadSampleDataAgain ==
    /\ call.op = "load_sample_data"
    /\ ~HasKey(call, "earlier")
    /\ RoomForSamples
    /\ \E o \in load_sample_data(tables) :
           /\ tables' = o.tables
           /\ call' = [op |-> "load_sample_data", before |-> tables, ret |-> o.ret,
                       earlier |-> call.ret]
    /\ UNCHANGED <<history, today, ai_forecast, text, products, embeddings>>

SetupDatabase ==
    /\ call = NoCall
    /\ RoomForSamples
    /\ \E o \in setup_database(tables) :
           /\ tables' = o.tables
           /\ call' = [op |-> "setup_database", steps |-> o.steps, ret |-> o.ret]
    /\ UNCHANGED <<history, today, ai_forecast, text, products, embeddings>>

NextIngestion ==
    \/ Return
    \/ CreateTables
    \/ LoadSampleData
    \/ LoadSampleDataAgain
    \/ SetupDatabase

SpecIngestion == InitIngestion /\ [][NextIngestion]_vars

\* C23: setup_database returns True if and only if create_tables and then
\* load_sample_data both returned True; create_tables is invoked first,
\* load_sample_data is invoked only after create_tables returned True, and a
\* step that raises yields False.
C23_SetupDatabase ==
    call.op = "setup_database" =>
        /\ call.ret \in BOOLEAN
        /\ call.ret <=> call.steps = <<Step("create_tables", "True"),
                                       Step("load_sample_data", "True")>>
        /\ call.steps[1].step = "create_tables"
        /\ Len(call.steps) \in {1, 2}
        /\ Len(call.steps) = 2 <=> call.steps[1].outcome = "True"
        /\ Len(call.steps) = 2 => call.steps[2].step = "load_sample_data"
        /\ (\E i \in DOMAIN call.steps : call.steps[i].outcome = "raised") => ~call.ret

C23_Witness ==
    /\ call.op = "setup_database"
    /\ call.ret
    /\ Len(call.steps) = 2
    /\ tables["products"].rows = 1
    /\ tables["user_behavior"].rows = 1

\* C24 as stated: load_sample_data inserts sample rows into a table only if
\* the table is empty at the time of the call, and a second call after a
\* first call that returned True performs no further insert.
C24_LoadsOnlyEmptyTables ==
    call.op = "load_sample_data" =>
        /\ \A t \in DOMAIN tables :
               tables[t].rows > call.before[t].rows => call.before[t].rows = 0
        /\ (HasKey(call, "earlier") /\ call.earlier) =>
               \A t \in DOMAIN tables : tables[t].rows = call.before[t].rows

(***************************************************************************)
(* VectorSearchEngine.create_product_embeddings.  `tables` holds the       *)
(* products table (its rows with a description) and the product_embeddings *)
(* table, rows counted one by one.                                         *)
(***************************************************************************)
batch_size == 100

MaxEmbeddingRows == 300

\* False when the count query raises, as it does on a missing table
_embeddings_table_has_data(tb) ==
    {FALSE} \cup (IF tb["product_embeddings"].exists
                  THEN {tb["product_embeddings"].rows > 0} ELSE {})

\* the sizes of the batches handed to _process_embedding_batch for n products
BatchSizes(n) ==
    [i \in 1..(n \div batch_size) |-> batch_size]
    \o (IF n % batch_size > 0 THEN <<n % batch_size>> ELSE <<>>)

\* _process_embedding_batch for each batch from the i-th on, then
\* _create_vector_index, which never raises; every product gets an embedding
\* (generate_embedding returns 768 components), and insert_rows_json raises,
\* reports row errors and stores nothing, or stores the rows
RECURSIVE ProcessBatches(_, _, _, _)
ProcessBatches(tb, sizes, i, batches) ==
    IF i > Len(sizes) THEN { [tables |-> tb, ret |-> TRUE, batches |-> batches] }
    ELSE { [tables |-> tb, ret |-> FALSE, batches |-> Append(batches, "raised")] }
         \cup ProcessBatches(tb, sizes, i + 1, Append(batches, "errors"))
         \cup ProcessBatches([tb EXCEPT !["product_embeddings"].rows = @ + sizes[i]],
                             sizes, i + 1, Append(batches, "ok"))

create_product_embeddings(tb) ==
    UNION {
        IF has_data THEN { [tables |-> tb, ret |-> TRUE, batches |-> <<>>] }
        ELSE \* the products query raises, as it does on a missing table
             { [tables |-> tb, ret |-> FALSE, batches |-> <<>>] }
             \cup
             ( IF ~tb["products"].exists THEN {}
               ELSE \* _create_embeddings_table raises
                    { [tables |-> tb, ret |-> FALSE, batches |-> <<>>] }
                    \cup
                    ProcessBatches([tb EXCEPT !["product_embeddings"].exists = TRUE],
                                   BatchSizes(tb["products"].rows), 1, <<>>) )
        : has_data \in _embeddings_table_has_data(tb) }

\* numbers of products with a description: none, less than a batch, a full
\* batch, and more than one batch
ProductCounts == {0, 1, batch_size, batch_size + 1, 2 * batch_size + 1}

InitEmbeddings ==
    /\ \E n \in ProductCounts, exists \in BOOLEAN :
           tables = [t \in {"products", "product_embeddings"} |->
                        IF t = "products"
                        THEN [exists |-> exists, rows |-> IF exists THEN n ELSE 0]
                        ELSE [exists |-> FALSE, rows |-> 0]]
    /\ products = <<>>
    /\ embeddings = {}
    /\ history = <<>>
    /\ ai_forecast = AIDown
    /\ today = 0
    /\ text = <<>>
    /\ call = NoCall

CreateProductEmbeddings ==
    /\ call = NoCall
    /\ tables["product_embeddings"].rows <= MaxEmbeddingRows
    /\ \E o \in create_product_embeddings(tables) :
           /\ tables' = o.tables
           /\ call' = [op |-> "create_product_embeddings", before |-> tables,
                       batches |-> o.batches, ret |-> o.ret]
    /\ UNCHANGED <<history, today, ai_forecast, text, products, embeddings>>

NextEmbeddings ==
    \/ Return
    \/ CreateProductEmbeddings

SpecEmbeddings == InitEmbeddings /\ [][NextEmbeddings]_vars

\* C25 as stated: create_product_embeddings returns False whenever storing a
\* batch of embeddings fails (the insert reports row errors or raises), and
\* when the embeddings table already holds data it returns True and inserts
\* nothing.
C25_TrueOnlyIfStored ==
    call.op = "create_product_embeddings" =>
        /\ (\E k \in DOMAIN call.batches : call.batches[k] \in {"errors", "raised"})
               => ~call.ret
        /\ call.before["product_embeddings"].rows > 0 =>
               /\ call.ret
               /\ tables["product_embeddings"].rows
                      = call.before["product_embeddings"].rows

(***************************************************************************)
(* SimpleAIEngine.summarize_text.                                          *)
(***************************************************************************)
MaxSummaryLength == 8

\* s[:stop], stop of either sign
SliceTo(s, stop) ==
    IF stop >= 0 THEN SubSeq(s, 1, Min(stop, Len(s)))
    ELSE SubSeq(s, 1, Len(s) + stop)

\* the positions of the full stops of t
FullStops(t) == { i \in 1..Len(t) : t[i] = "." }

\* text.split('.')[0] and text.split('.')[-1] of a text with a full stop
FirstSentence(t) ==
    SubSeq(t, 1, (CHOOSE i \in FullStops(t) : \A j \in FullStops(t) : i <= j) - 1)

LastSentence(t) ==
    SubSeq(t, (CHOOSE i \in FullStops(t) : \A j \in FullStops(t) : j <= i) + 1, Len(t))

summarize_text(t, max_length) ==
    IF Cardinality(FullStops(t)) + 1 <= 2 THEN SliceTo(t, max_length)
    ELSE LET summary == FirstSentence(t) \o <<".", " ">> \o LastSentence(t) \o <<".">>
         IN  IF Len(summary) > max_length
             THEN SliceTo(summary, max_length - 3) \o <<".", ".", ".">>
             ELSE summary

SummaryTexts ==
    { <<>>,
      <<"a">>,
      <<"a", "b", " ", "c", "d">>,
      <<"a", ".", "b">>,
      <<"a", ".", "b", ".", "c">>,
      <<"a", "b", ".", "c", "d", ".", "e", "f">>,
      <<"a", ".", "b", ".", "c", ".", "d">>,
      <<".", ".", ".">>,
      <<"a", ".", ".">>,
      <<".", "a", ".">>,
      <<"h", "i", ".", " ", "o", "k", ".", " ", "r", "e", "d", ".">>,
      <<"c", "a", "t", ".", "d", "o", "g">>,
      <<"a", ".", "b", ".">>,
      <<"t", "v", ".", " ", "p", "c", ".", " ", "l", "e", "d", ".", " ", "u", "s", "b">> }

InitSummary ==
    /\ text = <<>>
    /\ history = <<>>
    /\ today = 0
    /\ ai_forecast = AIDown
    /\ products = <<>>
    /\ embeddings = {}
    /\ tables = NoTables
    /\ call = NoCall

SummarizeText ==
    /\ call = NoCall
    /\ \E t \in SummaryTexts, max_length \in 0..MaxSummaryLength :
           call' = [op |-> "summarize_text", text |-> t, max_length |-> max_length,
                    ret |-> summarize_text(t, max_length)]
    /\ UNCHANGED <<history, today, ai_forecast, text, products, embeddings, tables>>

NextSummary ==
    \/ Return
    \/ SummarizeText

SpecSummary == InitSummary /\ [][NextSummary]_vars

\* C26 as stated: for every text and every max_length >= 0 the string
\* summarize_text returns has length at most max_length.
C26_SummaryWithinMaxLength ==
    call.op = "summarize_text" => Len(call.ret) <= call.max_length

(***************************************************************************)
(* VectorSearchEngine.get_product_substitutions.                           *)
(***************************************************************************)
\* find_similar_products(product_id, top_k=10)
substitution_top_k == 10

\* substitutions[:5]
max_substitutions == 5

\* None when the query raises or selects no row
_get_product_price(product_id) ==
    {None} \cup (IF product_id \in DOMAIN products
                 THEN {Some(products[product_id].price)} ELSE {})

\* the explanations _generate_substitution_explanation can give: the fixed
\* one when a details query raises or finds no product, else one by reason
Explanations(original_id, substitution_id, reason) ==
    {"Similar product recommendation"}
    \cup
    ( IF original_id \in DOMAIN products /\ substitution_id \in DOMAIN products
      THEN { CASE reason = "out_of_stock" -> "Great alternative"
               [] reason = "price" ->
                      IF products[substitution_id].price - products[original_id].price < 0
                      THEN "More affordable option" ELSE "Premium alternative"
               [] OTHER -> "Similar to" }
      ELSE {} )

\* the lists in which every entry of subs from the i-th on has got its
\* substitution_reason and one of its explanations
RECURSIVE ExplainFrom(_, _, _, _)
ExplainFrom(subs, i, product_id, reason) ==
    IF i > Len(subs) THEN {subs}
    ELSE UNION { ExplainFrom([subs EXCEPT ![i] = @ @@ ("substitution_reason" :> reason
                                                       @@ "explanation" :> e)],
                             i + 1, product_id, reason) :
                 e \in Explanations(product_id, subs[i].product_id, reason) }

\* mutant: the score of the popularity tier is the threshold
GoodStockAndScore_lenient(p) ==
    p.stock_quantity > 10 /\ RatLt(Rat(5, 10), p.similarity_score)

\* p['stock_quantity'] > 10 and p['similarity_score'] > 0.7
GoodStockAndScore(p) ==
    p.stock_quantity > 10 /\ RatLt(Rat(7, 10), p.similarity_score)

\* p['price'] <= original_price * 1.2 and p['similarity_score'] > 0.6
PriceAndScore(p, original_price) ==
    p.price * 10 <= original_price * 12 /\ RatLt(Rat(6, 10), p.similarity_score)

\* the lists the filter on `reason` can leave of similar_products
Filtered(similar_products, product_id, reason) ==
    IF reason = "out_of_stock"
    THEN { SelectSeq(similar_products, GoodStockAndScore) }
    ELSE IF reason = "price"
    THEN { IF original_price = None \/ original_price[1] = 0
           THEN similar_products
           ELSE LET Affordable(p) == PriceAndScore(p, original_price[1])
                IN  SelectSeq(similar_products, Affordable) :
           original_price \in _get_product_price(product_id) }
    ELSE { similar_products }

get_product_substitutions(product_id, reason) ==
    UNION { UNION { { [queries |-> o.queries,
                       similar_products |-> o.ret,
                       ret |-> SubSeq(s, 1, Min(max_substitutions, Len(s)))] :
                      s \in ExplainFrom(substitutions, 1, product_id, reason) }
                    : substitutions \in Filtered(o.ret, product_id, reason) }
            : o \in find_similar_products(product_id, substitution_top_k) }

SubstitutionReasons == {"out_of_stock", "price", "similar"}

SubstitutionIds == {"P1", "P2", "P3", "P4", "P5", "P6", "P7"}

\* the target and six products of its category, rated 7 down to 2; the
\* first `others` of the six hold `stock` items, the rest none
SubstitutionCatalog(target_stock, others, stock) ==
    [id \in SubstitutionIds |->
        LET k == CHOOSE i \in 1..7 : id = <<"P1", "P2", "P3", "P4", "P5", "P6", "P7">>[i]
        IN  [category |-> "A", rating |-> 9 - k, price |-> 10 * k,
             stock_quantity |-> IF k = 1 THEN target_stock
                                ELSE IF k - 1 <= others THEN stock ELSE 0]]

InitSubstitutions ==
    /\ products \in { SubstitutionCatalog(0, 6, 20), SubstitutionCatalog(0, 2, 20),
                      SubstitutionCatalog(0, 2, 5), SubstitutionCatalog(20, 2, 20) }
    /\ \E S \in EmbeddedSets : embeddings = [id \in S |-> DefaultEmbedding(id)]
    /\ tables = NoTables
    /\ history = <<>>
    /\ ai_forecast = AIDown
    /\ today = 0
    /\ text = <<>>
    /\ call = NoCall

GetProductSubstitutions ==
    /\ call = NoCall
    /\ \E reason \in SubstitutionReasons :
           \E o \in get_product_substitutions(Target, reason) :
               call' = [op |-> "get_product_substitutions", product_id |-> Target,
                        reason |-> reason, queries |-> o.queries,
                        similar_products |-> o.similar_products, ret |-> o.ret]
    /\ UNCHANGED <<history, today, ai_forecast, text, products, embeddings, tables>>

NextSubstitutions ==
    \/ Return
    \/ GetProductSubstitutions

SpecSubstitutions == InitSubstitutions /\ [][NextSubstitutions]_vars

\* C30: get_product_substitutions returns at most 5 entries, each carrying
\* substitution_reason and explanation; for reason 'out_of_stock' every
\* entry has stock_quantity > 10 and similarity_score > 0.7, so the list is
\* empty whenever find_similar_products answered from the category tier or
\* the popularity tier.
C30_AtMostFiveGoodSubstitutions ==
    call.op = "get_product_substitutions" =>
        /\ Len(call.ret) <= 5
        /\ \A i \in DOMAIN call.ret :
               /\ HasKey(call.ret[i], "substitution_reason")
               /\ call.ret[i].substitution_reason = call.reason
               /\ HasKey(call.ret[i], "explanation")
        /\ call.reason = "out_of_stock" =>
               /\ \A i \in DOMAIN call.ret :
                      /\ call.ret[i].stock_quantity > 10
                      /\ RatLt(Rat(7, 10), call.ret[i].similarity_score)
               /\ LastQuery.query \in {"category", "popular"} => call.ret = <<>>

C30_Witness ==
    /\ call.op = "get_product_substitutions"
    /\ call.reason = "out_of_stock"
    /\ LastQuery = Log("category", "ok")
    /\ \E i \in DOMAIN call.similar_products :
           call.similar_products[i].stock_quantity > 10
    /\ call.ret = <<>>

\* more than 5 similar products, cut to 5
C30_WitnessCut ==
    /\ call.op = "get_product_substitutions"
    /\ Len(call.similar_products) > 5
    /\ Len(call.ret) = 5
    /\ HasKey(call.ret[5], "explanation")

(***************************************************************************)
(* The whole system: any engine, called on any of its inputs.              *)
(***************************************************************************)
Init == InitForecast \/ InitText \/ InitSearch \/ InitEmbed
        \/ InitKeywords \/ InitStrategies \/ InitPurity \/ InitZeroNorm
        \/ InitTextSearch \/ InitIngestion \/ InitEmbeddings
        \/ InitSummary \/ InitSubstitutions

Next == NextForecast \/ NextText \/ NextSearch \/ NextEmbed
        \/ NextKeywords \/ NextStrategies \/ NextPurity \/ NextTextSearch
        \/ NextIngestion \/ NextEmbeddings \/ NextSummary
        \/ NextSubstitutions

Spec == Init /\ [][Next]_vars

====
